---- MODULE Spec2Model ----
(***************************************************************************)
(* State-machine model of the command line tools of iac-stats-scripts:     *)
(*   repo_scraper.py  parse the repository argument, list every commit     *)
(*                    page by page, fetch each commit's changed files,     *)
(*                    write <repo>.json;                                   *)
(*   commit_info.py   parse the repository argument, poll the contributor  *)
(*                    statistics endpoint, report.                         *)
(* Text is a sequence of one-character strings, so that the regular        *)
(* expressions and the strip calls of parse_github_url act on characters.  *)
(***************************************************************************)
EXTENDS Integers, Sequences, FiniteSets, TLC

VARIABLES
    tool,           \* the script that runs: "repo_scraper" or "commit_info"
    argForm,        \* the textual form the argument was written in
    argOwner,       \* the owner segment the argument was written with
    argName,        \* the name segment the argument was written with
    arg,            \* args.repository, the positional command line argument
    pc,             \* position of the single thread of control
    parsed,         \* what parse_github_url returned or raised
    owner, repo,    \* the pair main unpacks from parse_github_url
    ret,            \* main's return value: "running", "None", "0", "1"
    outcome,        \* which except clause / message ended main
    interruptedAt,  \* pc at which a KeyboardInterrupt arrived ("" if none)
    page,           \* get_all_commits: page
    all_commits,    \* get_all_commits: all_commits (the listed shas, in order)
    lastSize,       \* len(commits) of the last 200 listing response
    lastListStatus, \* status of the last listing response (0: none yet)
    nListReqs,      \* listing requests issued
    nListFails,     \* listing responses with a non-200 status
    retried,        \* a listing request was issued right after a non-200 one
    nSleeps,        \* completed time.sleep(0.1) calls
    transportErr,   \* a requests.get raised RequestException
    idx,            \* position of the for loop over all_commits
    data_we_need,   \* the dict built by get_all_commits, in insertion order
    nDetailReqs,    \* commit detail requests issued
    reqSha,         \* sha of the last commit detail request (0: none yet)
    lastDetailStatus, \* status of the last detail response (0: none yet)
    nDetailFails,   \* detail fetches that returned None
    sink,           \* the output file: absent or [name, data]
    nWrites,        \* calls of write_data_to_json
    nStatsReqs,     \* commit_info: requests to stats/contributors
    n202,           \* commit_info: 202 responses received
    nBackoffs,      \* commit_info: completed time.sleep(3) calls
    lastStatsStatus, \* commit_info: status of the last response (0: none yet)
    lastPayload,    \* commit_info: body of the last 200 response
    stats,          \* commit_info: what get_contributors_stats returned
    faulty,         \* whether the host and the network may fail a request
    envToken,       \* the environment's GITHUB_TOKEN, set or not
    GITHUB_TOKEN,   \* repo_scraper's module global
    lastAuthorization, \* Authorization header of the last request issued
    classifier,     \* a GitHubFileClassifier instance
    calls,          \* the classify_file calls made on it: path and result
    counter,        \* a BuildFileCounter, TestFileCounter or IaCCounter
    tmpExists,      \* whether the directory counter.temp_dir names exists
    toVisit,        \* scan_directory: the files os.walk has yet to yield
    cleanups,       \* what each cleanup_temp_dir call did, in call order
    nScans          \* scan_directory calls made on the counter

vars == <<tool, argForm, argOwner, argName, arg, pc, parsed, owner, repo,
          ret, outcome, interruptedAt,
          page, all_commits, lastSize, lastListStatus, nListReqs, nListFails,
          retried, nSleeps, transportErr, idx, data_we_need, nDetailReqs,
          reqSha, lastDetailStatus, nDetailFails, sink, nWrites,
          nStatsReqs, n202, nBackoffs, lastStatsStatus, lastPayload, stats,
          faulty, envToken, GITHUB_TOKEN, lastAuthorization, classifier,
          calls, counter, tmpExists, toVisit, cleanups, nScans>>

scraperVars == <<page, all_commits, lastSize, lastListStatus, nListReqs,
                 nListFails, retried, nSleeps, transportErr, idx, data_we_need,
                 nDetailReqs, reqSha, lastDetailStatus, nDetailFails, sink,
                 nWrites>>

statsVars == <<nStatsReqs, n202, nBackoffs, lastStatsStatus, lastPayload, stats>>

classifierVars == <<classifier, calls>>

authVars == <<envToken, GITHUB_TOKEN, lastAuthorization>>

counterVars == <<counter, tmpExists, toVisit, cleanups, nScans>>

-----------------------------------------------------------------------------
(* Bounds of the model.                                                    *)

\* longest repository name segment drawn for parse_github_url
MaxLen == 3
\* longest owner segment drawn for parse_github_url
MaxOwnerLen == 2
\* most pages the mocked listing endpoint serves (the last one is short)
MaxPages == 3
\* most non-200 responses the mocked listing endpoint gives in one run
MaxListFails == 1
\* the commits 1..MaxBadSha are those whose detail request the mocked host may fail
MaxBadSha == 2
\* most 202 responses the mocked statistics endpoint gives in one run
MaxPolls == 3
\* most classify_file calls made on one GitHubFileClassifier instance
MaxCalls == 3
\* most files in one scanned directory tree
MaxFiles == 2
\* most scan_directory calls made on one counter object
MaxScans == 2

-----------------------------------------------------------------------------
(* Text.                                                                   *)

HttpsPrefix ==
    <<"h","t","t","p","s",":","/","/","g","i","t","h","u","b",".","c","o","m","/">>

SshPrefix ==
    <<"g","i","t","@","g","i","t","h","u","b",".","c","o","m",":">>

DotGit == <<".","g","i","t">>

NotAValidRef ==
    <<"n","o","t"," ","a"," ","v","a","l","i","d"," ","r","e","f","!","!">>

Whitespace == {" "}

IsPrefix(p, s) == Len(p) <= Len(s) /\ SubSeq(s, 1, Len(p)) = p

\* str.strip(): leading and trailing whitespace removed
RECURSIVE LStrip(_)
LStrip(s) == IF s # <<>> /\ Head(s) \in Whitespace THEN LStrip(Tail(s)) ELSE s

RECURSIVE RStrip(_, _)
RStrip(s, chars) ==
    IF s # <<>> /\ s[Len(s)] \in chars
    THEN RStrip(SubSeq(s, 1, Len(s) - 1), chars)
    ELSE s

Strip(s) == RStrip(LStrip(s), Whitespace)

\* length of the longest run of characters other than "/" that starts at s[i]
RECURSIVE RunLen(_, _)
RunLen(s, i) == IF i > Len(s) \/ s[i] = "/" THEN 0 ELSE 1 + RunLen(s, i + 1)

SetMax(S) == CHOOSE m \in S : \A x \in S : x <= m

NoMatch == [matched |-> FALSE, owner |-> <<>>, repo |-> <<>>]

\* what follows the second group: "/?" (always matches), "\.git", or nothing
TailMatches(tail, s, p) ==
    IF tail = "dotgit"
    THEN p + 3 <= Len(s) /\ SubSeq(s, p, p + 3) = DotGit
    ELSE TRUE

ReFullMatch(prefix, tail, s) ==
    IF ~IsPrefix(prefix, s) THEN NoMatch
    ELSE LET i  == Len(prefix) + 1
             r1 == RunLen(s, i)
             j  == i + r1
         IN  IF r1 = 0 \/ j > Len(s) THEN NoMatch
             ELSE LET k    == j + 1
                      r2   == RunLen(s, k)
                      AtEnd(p) ==
                          CASE tail = "dotgit"   -> p + 3 = Len(s)
                            [] tail = "optslash" ->
                                 \/ p = Len(s) + 1
                                 \/ p = Len(s) /\ s[p] = "/"
                            [] OTHER -> p = Len(s) + 1
                      lens == {m \in 1..r2 : /\ TailMatches(tail, s, k + m)
                                             /\ AtEnd(k + m)}
                  IN  IF lens = {} THEN NoMatch
                      ELSE [matched |-> TRUE,
                            owner   |-> SubSeq(s, i, j - 1),
                            repo    |-> SubSeq(s, k, k + SetMax(lens) - 1)]

\* re.match(prefix ([^/]+) / ([^/]+) tail, s): anchored at the start of s, the
\* groups greedy, the second one giving back characters until the tail matches
ReMatch(prefix, tail, s) ==
    IF ~IsPrefix(prefix, s) THEN NoMatch
    ELSE LET i  == Len(prefix) + 1
             r1 == RunLen(s, i)
             j  == i + r1
         IN  IF r1 = 0 \/ j > Len(s) THEN NoMatch
             ELSE LET k    == j + 1
                      r2   == RunLen(s, k)
                      lens == {m \in 1..r2 : TailMatches(tail, s, k + m)}
                  IN  IF lens = {} THEN NoMatch
                      ELSE [matched |-> TRUE,
                            owner   |-> SubSeq(s, i, j - 1),
                            repo    |-> SubSeq(s, k, k + SetMax(lens) - 1)]

\* the three patterns, in the order the loop tries them
patterns ==
    << [prefix |-> HttpsPrefix, tail |-> "optslash"],
       [prefix |-> SshPrefix,   tail |-> "dotgit"],
       [prefix |-> <<>>,        tail |-> "none"] >>

Raised == [raised |-> TRUE, owner |-> <<>>, repo |-> <<>>]

\* the characters repo.rstrip(".git") removes from the end of the name
RstripChars == {".", "g", "i", "t"}

Returned(o, r) == [raised |-> FALSE, owner |-> o, repo |-> RStrip(r, RstripChars)]

parse_github_url(url) ==
    LET s    == Strip(url)
        hits == {p \in 1..Len(patterns) :
                    ReMatch(patterns[p].prefix, patterns[p].tail, s).matched}
    IN  IF hits = {} THEN Raised
        ELSE LET p == CHOOSE q \in hits : \A h \in hits : q <= h
                 m == ReMatch(patterns[p].prefix, patterns[p].tail, s)
             IN  Returned(m.owner, m.repo)

-----------------------------------------------------------------------------
(* repo_scraper.py: GitHubFileClassifier.  A path is the sequence of its    *)
(* characters, as the reference text of parse_github_url is.               *)

\* str.lower() on one character
LowerChar(c) ==
    CASE c = "A" -> "a"
      [] c = "B" -> "b"
      [] c = "C" -> "c"
      [] c = "D" -> "d"
      [] c = "E" -> "e"
      [] c = "F" -> "f"
      [] c = "G" -> "g"
      [] c = "H" -> "h"
      [] c = "I" -> "i"
      [] c = "J" -> "j"
      [] c = "K" -> "k"
      [] c = "L" -> "l"
      [] c = "M" -> "m"
      [] c = "N" -> "n"
      [] c = "O" -> "o"
      [] c = "P" -> "p"
      [] c = "Q" -> "q"
      [] c = "R" -> "r"
      [] c = "S" -> "s"
      [] c = "T" -> "t"
      [] c = "U" -> "u"
      [] c = "V" -> "v"
      [] c = "W" -> "w"
      [] c = "X" -> "x"
      [] c = "Y" -> "y"
      [] c = "Z" -> "z"
      [] OTHER -> c

Lower(s) == [i \in 1..Len(s) |-> LowerChar(s[i])]

\* s.endswith(suffix)
EndsWith(s, suffix) ==
    /\ Len(suffix) <= Len(s)
    /\ SubSeq(s, Len(s) - Len(suffix) + 1, Len(s)) = suffix

\* sub in s
Contains(s, sub) ==
    \E i \in 0..(Len(s) - Len(sub)) : SubSeq(s, i + 1, i + Len(sub)) = sub

\* filepath.split('/')[-1]
LastSegment(filepath) ==
    LET slashes == {i \in 1..Len(filepath) : filepath[i] = "/"}
    IN  IF slashes = {} THEN filepath
        ELSE SubSeq(filepath, SetMax(slashes) + 1, Len(filepath))

\* fnmatch.fnmatch(name, pattern) for patterns whose only wildcard is '*'
RECURSIVE fnmatch(_, _)
fnmatch(name, pattern) ==
    IF pattern = <<>> THEN name = <<>>
    ELSE IF Head(pattern) = "*"
         THEN \/ fnmatch(name, Tail(pattern))
              \/ name # <<>> /\ fnmatch(Tail(name), pattern)
         ELSE /\ name # <<>>
              /\ Head(name) = Head(pattern)
              /\ fnmatch(Tail(name), Tail(pattern))

\* file_patterns['Development']
DevelopmentPatterns ==
    [ extensions |-> <<
        <<".", "j", "s">>, <<".", "t", "s">>, <<".", "j", "s", "x">>,
        <<".", "t", "s", "x">>, <<".", "p", "y">>,
        <<".", "j", "a", "v", "a">>, <<".", "c", "p", "p">>, <<".", "c">>,
        <<".", "h">>, <<".", "c", "s">>, <<".", "p", "h", "p">>,
        <<".", "r", "b">>, <<".", "g", "o">>, <<".", "r", "s">>,
        <<".", "k", "t">>, <<".", "s", "w", "i", "f", "t">>,
        <<".", "s", "c", "a", "l", "a">>, <<".", "c", "l", "j">>,
        <<".", "h", "s">>, <<".", "m", "l">>, <<".", "r">>, <<".", "m">>,
        <<".", "s", "q", "l">>, <<".", "h", "t", "m", "l">>,
        <<".", "c", "s", "s">>, <<".", "s", "c", "s", "s">>,
        <<".", "s", "a", "s", "s">>, <<".", "l", "e", "s", "s">>,
        <<".", "v", "u", "e">>, <<".", "s", "v", "e", "l", "t", "e">>
      >>,
      paths |-> <<
        <<"s", "r", "c", "/">>, <<"l", "i", "b", "/">>,
        <<"a", "p", "p", "/">>,
        <<"c", "o", "m", "p", "o", "n", "e", "n", "t", "s", "/">>,
        <<"p", "a", "g", "e", "s", "/">>, <<"v", "i", "e", "w", "s", "/">>,
        <<"c", "o", "n", "t", "r", "o", "l", "l", "e", "r", "s", "/">>,
        <<"m", "o", "d", "e", "l", "s", "/">>,
        <<"s", "e", "r", "v", "i", "c", "e", "s", "/">>,
        <<"u", "t", "i", "l", "s", "/">>,
        <<"h", "e", "l", "p", "e", "r", "s", "/">>,
        <<"c", "o", "r", "e", "/">>, <<"c", "o", "m", "m", "o", "n", "/">>,
        <<"s", "h", "a", "r", "e", "d", "/">>
      >>,
      filenames |-> <<
        <<"i", "n", "d", "e", "x", ".", "j", "s">>,
        <<"m", "a", "i", "n", ".", "j", "s">>,
        <<"a", "p", "p", ".", "j", "s">>,
        <<"s", "e", "r", "v", "e", "r", ".", "j", "s">>,
        <<"c", "l", "i", "e", "n", "t", ".", "j", "s">>,
        <<"i", "n", "d", "e", "x", ".", "t", "s">>,
        <<"m", "a", "i", "n", ".", "t", "s">>,
        <<"a", "p", "p", ".", "p", "y">>,
        <<"m", "a", "i", "n", ".", "p", "y">>,
        <<"_", "_", "i", "n", "i", "t", "_", "_", ".", "p", "y">>
      >> ]

\* file_patterns['Test']
TestPatterns ==
    [ extensions |-> <<
        <<".", "t", "e", "s", "t", ".", "j", "s">>,
        <<".", "t", "e", "s", "t", ".", "t", "s">>,
        <<".", "s", "p", "e", "c", ".", "j", "s">>,
        <<".", "s", "p", "e", "c", ".", "t", "s">>,
        <<".", "t", "e", "s", "t", ".", "p", "y">>,
        <<".", "s", "p", "e", "c", ".", "p", "y">>
      >>,
      paths |-> <<
        <<"t", "e", "s", "t", "/">>, <<"t", "e", "s", "t", "s", "/">>,
        <<"_", "_", "t", "e", "s", "t", "s", "_", "_", "/">>,
        <<"s", "p", "e", "c", "/">>, <<"s", "p", "e", "c", "s", "/">>,
        <<".", "p", "y", "t", "e", "s", "t", "_", "c", "a", "c", "h", "e", "/">>,
        <<"c", "y", "p", "r", "e", "s", "s", "/">>, <<"e", "2", "e", "/">>,
        <<"t", "e", "s", "t", "i", "n", "g", "/">>
      >>,
      filenames |-> <<
        <<"j", "e", "s", "t", ".", "c", "o", "n", "f", "i", "g", ".", "j", "s">>,
        <<"j", "e", "s", "t", ".", "c", "o", "n", "f", "i", "g", ".", "j", "s", "o", "n">>,
        <<"p", "y", "t", "e", "s", "t", ".", "i", "n", "i">>,
        <<"c", "o", "n", "f", "t", "e", "s", "t", ".", "p", "y">>,
        <<"k", "a", "r", "m", "a", ".", "c", "o", "n", "f", ".", "j", "s">>,
        <<"p", "r", "o", "t", "r", "a", "c", "t", "o", "r", ".", "c", "o", "n", "f", ".", "j", "s">>,
        <<"c", "y", "p", "r", "e", "s", "s", ".", "j", "s", "o", "n">>
      >>,
      keywords |-> <<
        <<"t", "e", "s", "t">>, <<"s", "p", "e", "c">>,
        <<"m", "o", "c", "k">>, <<"f", "i", "x", "t", "u", "r", "e">>,
        <<"c", "o", "v", "e", "r", "a", "g", "e">>
      >> ]

\* file_patterns['Build']
BuildPatterns ==
    [ extensions |-> <<
        <<".", "j", "s", "o", "n">>, <<".", "x", "m", "l">>,
        <<".", "y", "m", "l">>, <<".", "y", "a", "m", "l">>,
        <<".", "t", "o", "m", "l">>, <<".", "i", "n", "i">>,
        <<".", "c", "f", "g">>, <<".", "c", "o", "n", "f">>
      >>,
      paths |-> <<
        <<"b", "u", "i", "l", "d", "/">>, <<"d", "i", "s", "t", "/">>,
        <<"o", "u", "t", "/">>, <<"t", "a", "r", "g", "e", "t", "/">>,
        <<"b", "i", "n", "/">>, <<"r", "e", "l", "e", "a", "s", "e", "/">>,
        <<"s", "c", "r", "i", "p", "t", "s", "/">>,
        <<"t", "o", "o", "l", "s", "/">>,
        <<"c", "o", "n", "f", "i", "g", "/">>,
        <<"c", "o", "n", "f", "i", "g", "s", "/">>
      >>,
      filenames |-> <<
        <<"p", "a", "c", "k", "a", "g", "e", ".", "j", "s", "o", "n">>,
        <<"p", "a", "c", "k", "a", "g", "e", "-", "l", "o", "c", "k", ".", "j", "s", "o", "n">>,
        <<"y", "a", "r", "n", ".", "l", "o", "c", "k">>,
        <<"p", "n", "p", "m", "-", "l", "o", "c", "k", ".", "y", "a", "m", "l">>,
        <<"M", "a", "k", "e", "f", "i", "l", "e">>,
        <<"m", "a", "k", "e", "f", "i", "l", "e">>,
        <<"C", "M", "a", "k", "e", "L", "i", "s", "t", "s", ".", "t", "x", "t">>,
        <<"b", "u", "i", "l", "d", ".", "g", "r", "a", "d", "l", "e">>,
        <<"p", "o", "m", ".", "x", "m", "l">>,
        <<"s", "e", "t", "u", "p", ".", "p", "y">>,
        <<"s", "e", "t", "u", "p", ".", "c", "f", "g">>,
        <<"p", "y", "p", "r", "o", "j", "e", "c", "t", ".", "t", "o", "m", "l">>,
        <<"r", "e", "q", "u", "i", "r", "e", "m", "e", "n", "t", "s", ".", "t", "x", "t">>,
        <<"P", "i", "p", "f", "i", "l", "e">>,
        <<"p", "o", "e", "t", "r", "y", ".", "l", "o", "c", "k">>,
        <<"C", "a", "r", "g", "o", ".", "t", "o", "m", "l">>,
        <<"C", "a", "r", "g", "o", ".", "l", "o", "c", "k">>,
        <<"g", "o", ".", "m", "o", "d">>, <<"g", "o", ".", "s", "u", "m">>,
        <<"w", "e", "b", "p", "a", "c", "k", ".", "c", "o", "n", "f", "i", "g", ".", "j", "s">>,
        <<"r", "o", "l", "l", "u", "p", ".", "c", "o", "n", "f", "i", "g", ".", "j", "s">>,
        <<"v", "i", "t", "e", ".", "c", "o", "n", "f", "i", "g", ".", "j", "s">>,
        <<"t", "s", "c", "o", "n", "f", "i", "g", ".", "j", "s", "o", "n">>,
        <<"b", "a", "b", "e", "l", ".", "c", "o", "n", "f", "i", "g", ".", "j", "s">>,
        <<".", "b", "a", "b", "e", "l", "r", "c">>,
        <<".", "e", "s", "l", "i", "n", "t", "r", "c", ".", "j", "s">>,
        <<".", "e", "s", "l", "i", "n", "t", "r", "c", ".", "j", "s", "o", "n">>,
        <<"p", "r", "e", "t", "t", "i", "e", "r", ".", "c", "o", "n", "f", "i", "g", ".", "j", "s">>,
        <<"g", "u", "l", "p", "f", "i", "l", "e", ".", "j", "s">>,
        <<"g", "r", "u", "n", "t", "f", "i", "l", "e", ".", "j", "s">>,
        <<"b", "u", "i", "l", "d", ".", "x", "m", "l">>,
        <<"b", "u", "i", "l", "d", ".", "y", "m", "l">>,
        <<"b", "u", "i", "l", "d", ".", "y", "a", "m", "l">>
      >> ]

\* file_patterns['Infrastructure']
InfrastructurePatterns ==
    [ extensions |-> <<
        <<".", "d", "o", "c", "k", "e", "r", "f", "i", "l", "e">>,
        <<".", "t", "f">>, <<".", "h", "c", "l">>, <<".", "s", "h">>,
        <<".", "b", "a", "t">>, <<".", "p", "s", "1">>, <<".", "c", "m", "d">>
      >>,
      paths |-> <<
        <<"d", "o", "c", "k", "e", "r", "/">>, <<"k", "8", "s", "/">>,
        <<"k", "u", "b", "e", "r", "n", "e", "t", "e", "s", "/">>,
        <<"t", "e", "r", "r", "a", "f", "o", "r", "m", "/">>,
        <<"a", "n", "s", "i", "b", "l", "e", "/">>,
        <<"p", "u", "p", "p", "e", "t", "/">>, <<"c", "h", "e", "f", "/">>,
        <<"v", "a", "g", "r", "a", "n", "t", "/">>,
        <<"h", "e", "l", "m", "/">>, <<"d", "e", "p", "l", "o", "y", "/">>,
        <<"d", "e", "p", "l", "o", "y", "m", "e", "n", "t", "/">>,
        <<"i", "n", "f", "r", "a", "/">>,
        <<"i", "n", "f", "r", "a", "s", "t", "r", "u", "c", "t", "u", "r", "e", "/">>,
        <<"o", "p", "s", "/">>, <<"d", "e", "v", "o", "p", "s", "/">>,
        <<".", "g", "i", "t", "h", "u", "b", "/">>,
        <<".", "g", "i", "t", "l", "a", "b", "/">>, <<"c", "i", "/">>,
        <<".", "c", "i", "r", "c", "l", "e", "c", "i", "/">>
      >>,
      filenames |-> <<
        <<"D", "o", "c", "k", "e", "r", "f", "i", "l", "e">>,
        <<"d", "o", "c", "k", "e", "r", "-", "c", "o", "m", "p", "o", "s", "e", ".", "y", "m", "l">>,
        <<"d", "o", "c", "k", "e", "r", "-", "c", "o", "m", "p", "o", "s", "e", ".", "y", "a", "m", "l">>,
        <<"V", "a", "g", "r", "a", "n", "t", "f", "i", "l", "e">>,
        <<"J", "e", "n", "k", "i", "n", "s", "f", "i", "l", "e">>,
        <<"P", "r", "o", "c", "f", "i", "l", "e">>,
        <<"H", "e", "r", "o", "k", "u", ".", "y", "m", "l">>,
        <<".", "t", "r", "a", "v", "i", "s", ".", "y", "m", "l">>,
        <<".", "g", "i", "t", "l", "a", "b", "-", "c", "i", ".", "y", "m", "l">>,
        <<"a", "z", "u", "r", "e", "-", "p", "i", "p", "e", "l", "i", "n", "e", "s", ".", "y", "m", "l">>,
        <<"t", "e", "r", "r", "a", "f", "o", "r", "m", ".", "t", "f">>,
        <<"m", "a", "i", "n", ".", "t", "f">>,
        <<"v", "a", "r", "i", "a", "b", "l", "e", "s", ".", "t", "f">>,
        <<"o", "u", "t", "p", "u", "t", "s", ".", "t", "f">>,
        <<"a", "n", "s", "i", "b", "l", "e", ".", "y", "m", "l">>,
        <<"p", "l", "a", "y", "b", "o", "o", "k", ".", "y", "m", "l">>,
        <<"i", "n", "v", "e", "n", "t", "o", "r", "y", ".", "i", "n", "i">>,
        <<"n", "g", "i", "n", "x", ".", "c", "o", "n", "f">>,
        <<"h", "t", "t", "p", "d", ".", "c", "o", "n", "f">>,
        <<"a", "p", "a", "c", "h", "e", ".", "c", "o", "n", "f">>,
        <<"k", "u", "b", "e", "r", "n", "e", "t", "e", "s", ".", "y", "m", "l">>,
        <<"k", "8", "s", ".", "y", "m", "l">>,
        <<"d", "e", "p", "l", "o", "y", "m", "e", "n", "t", ".", "y", "m", "l">>,
        <<"s", "e", "r", "v", "i", "c", "e", ".", "y", "m", "l">>,
        <<"h", "e", "l", "m", "-", "c", "h", "a", "r", "t", ".", "y", "m", "l">>,
        <<"v", "a", "l", "u", "e", "s", ".", "y", "m", "l">>
      >> ]

\* GitHubFileClassifier(): the dict keeps its keys in insertion order
GitHubFileClassifier ==
    [ file_patterns |-> <<
        [category |-> "Development", patterns |-> DevelopmentPatterns],
        [category |-> "Test", patterns |-> TestPatterns],
        [category |-> "Build", patterns |-> BuildPatterns],
        [category |-> "Infrastructure", patterns |-> InfrastructurePatterns]
      >> ]

\* for ext in patterns['extensions']: filepath.endswith(ext), on the path as
\* it was given
ExtensionMatch(rules, filepath) ==
    /\ "extensions" \in DOMAIN rules
    /\ \E k \in 1..Len(rules.extensions) :
          EndsWith(filepath, rules.extensions[k])

\* for path_pattern in patterns['paths']: path_pattern in path_lower
PathMatch(rules, path_lower) ==
    /\ "paths" \in DOMAIN rules
    /\ \E k \in 1..Len(rules.paths) : Contains(path_lower, rules.paths[k])

\* for pattern in patterns['filenames']: wildcard or exact match, both on the
\* lowercased last segment and the lowercased pattern
FilenameMatch(rules, filename_lower) ==
    /\ "filenames" \in DOMAIN rules
    /\ \E k \in 1..Len(rules.filenames) :
          LET pattern == rules.filenames[k]
          IN  IF Contains(pattern, <<"*">>)
              THEN fnmatch(filename_lower, Lower(pattern))
              ELSE filename_lower = Lower(pattern)

\* for keyword in patterns['keywords']
KeywordMatch(rules, filename_lower, path_lower) ==
    /\ "keywords" \in DOMAIN rules
    /\ \E k \in 1..Len(rules.keywords) :
          \/ Contains(filename_lower, rules.keywords[k])
          \/ Contains(path_lower, rules.keywords[k])

\* the value returned when no category matched
DefaultCategory == "development"

ClassifyFromTierFirst(items, i, filepath) ==
    LET path_lower == Lower(filepath)
        filename_lower == Lower(LastSegment(filepath))
        rest == i..Len(items)
        byExt == {k \in rest : ExtensionMatch(items[k].patterns, filepath)}
        byPath == {k \in rest : PathMatch(items[k].patterns, path_lower)}
        byName == {k \in rest : FilenameMatch(items[k].patterns, filename_lower)}
        byWord == {k \in rest :
                      KeywordMatch(items[k].patterns, filename_lower, path_lower)}
        First(S) == CHOOSE k \in S : \A j \in S : k <= j
    IN  IF byExt # {} THEN items[First(byExt)].category
        ELSE IF byPath # {} THEN items[First(byPath)].category
        ELSE IF byName # {} THEN items[First(byName)].category
        ELSE IF byWord # {} THEN items[First(byWord)].category
        ELSE DefaultCategory

ClassifyFromLastMatch(items, i, filepath) ==
    LET path_lower == Lower(filepath)
        filename_lower == Lower(LastSegment(filepath))
        hits == {k \in i..Len(items) :
                    \/ ExtensionMatch(items[k].patterns, filepath)
                    \/ PathMatch(items[k].patterns, path_lower)
                    \/ FilenameMatch(items[k].patterns, filename_lower)
                    \/ KeywordMatch(items[k].patterns, filename_lower, path_lower)}
    IN  IF hits = {} THEN DefaultCategory
        ELSE items[CHOOSE k \in hits : \A j \in hits : j <= k].category

\* the body of the loop over file_patterns.items(), from the i-th item on:
\* every tier of one category is tried before the next category is looked at
RECURSIVE ClassifyFrom(_, _, _)
ClassifyFrom(items, i, filepath) ==
    IF i > Len(items) THEN DefaultCategory
    ELSE LET rules == items[i].patterns
             path_lower == Lower(filepath)
             filename_lower == Lower(LastSegment(filepath))
         IN  IF \/ ExtensionMatch(rules, filepath)
                \/ PathMatch(rules, path_lower)
                \/ FilenameMatch(rules, filename_lower)
                \/ KeywordMatch(rules, filename_lower, path_lower)
             THEN items[i].category
             ELSE ClassifyFrom(items, i + 1, filepath)

classify_file(self, filepath) == ClassifyFrom(self.file_patterns, 1, filepath)

-----------------------------------------------------------------------------
(* build_counter.py, test_counter.py, iac_counter.py: the pattern tables.  *)
(* A filename_patterns entry is the sequence of the alternatives of its    *)
(* regular expression, each a text in which * stands for .* ; every        *)
(* expression of the tables is made of literals, .* , (a|b), x? and a      *)
(* final $ .                                                               *)

\* build_counter.py, self.build_patterns (lines 16-170), in the order of its keys
build_patterns ==
    <<
      [ category |-> "Python",
        patterns |->
          [ filenames |-> <<
              <<"s", "e", "t", "u", "p", ".", "p", "y">>,
              <<"s", "e", "t", "u", "p", ".", "c", "f", "g">>,
              <<"p", "y", "p", "r", "o", "j", "e", "c", "t", ".", "t", "o", "m", "l">>,
              <<"r", "e", "q", "u", "i", "r", "e", "m", "e", "n", "t", "s", ".", "t", "x", "t">>,
              <<"r", "e", "q", "u", "i", "r", "e", "m", "e", "n", "t", "s", "-", "d", "e", "v", ".", "t", "x", "t">>,
              <<"d", "e", "v", "-", "r", "e", "q", "u", "i", "r", "e", "m", "e", "n", "t", "s", ".", "t", "x", "t">>,
              <<"P", "i", "p", "f", "i", "l", "e">>,
              <<"P", "i", "p", "f", "i", "l", "e", ".", "l", "o", "c", "k">>,
              <<"p", "o", "e", "t", "r", "y", ".", "l", "o", "c", "k">>,
              <<"c", "o", "n", "d", "a", ".", "y", "m", "l">>,
              <<"e", "n", "v", "i", "r", "o", "n", "m", "e", "n", "t", ".", "y", "m", "l">>,
              <<"t", "o", "x", ".", "i", "n", "i">>,
              <<"p", "y", "t", "e", "s", "t", ".", "i", "n", "i">>,
              <<"m", "y", "p", "y", ".", "i", "n", "i">>,
              <<"f", "l", "a", "k", "e", "8", ".", "c", "f", "g">>,
              <<".", "f", "l", "a", "k", "e", "8">>
            >>,
            \* requirements.*\.txt$
            \* .*requirements\.txt$
            filename_patterns |-> <<
              <<<<"r", "e", "q", "u", "i", "r", "e", "m", "e", "n", "t", "s", "*", ".", "t", "x", "t">>>>,
              <<<<"*", "r", "e", "q", "u", "i", "r", "e", "m", "e", "n", "t", "s", ".", "t", "x", "t">>>>
            >> ] ],
      [ category |-> "JavaScript/Node.js",
        patterns |->
          [ filenames |-> <<
              <<"p", "a", "c", "k", "a", "g", "e", ".", "j", "s", "o", "n">>,
              <<"p", "a", "c", "k", "a", "g", "e", "-", "l", "o", "c", "k", ".", "j", "s", "o", "n">>,
              <<"y", "a", "r", "n", ".", "l", "o", "c", "k">>,
              <<"p", "n", "p", "m", "-", "l", "o", "c", "k", ".", "y", "a", "m", "l">>,
              <<"w", "e", "b", "p", "a", "c", "k", ".", "c", "o", "n", "f", "i", "g", ".", "j", "s">>,
              <<"w", "e", "b", "p", "a", "c", "k", ".", "c", "o", "n", "f", "i", "g", ".", "t", "s">>,
              <<"r", "o", "l", "l", "u", "p", ".", "c", "o", "n", "f", "i", "g", ".", "j", "s">>,
              <<"v", "i", "t", "e", ".", "c", "o", "n", "f", "i", "g", ".", "j", "s">>,
              <<"v", "i", "t", "e", ".", "c", "o", "n", "f", "i", "g", ".", "t", "s">>,
              <<"g", "u", "l", "p", "f", "i", "l", "e", ".", "j", "s">>,
              <<"g", "r", "u", "n", "t", "f", "i", "l", "e", ".", "j", "s">>,
              <<"b", "a", "b", "e", "l", ".", "c", "o", "n", "f", "i", "g", ".", "j", "s">>,
              <<"b", "a", "b", "e", "l", ".", "c", "o", "n", "f", "i", "g", ".", "j", "s", "o", "n">>,
              <<".", "b", "a", "b", "e", "l", "r", "c">>,
              <<".", "b", "a", "b", "e", "l", "r", "c", ".", "j", "s">>,
              <<"t", "s", "c", "o", "n", "f", "i", "g", ".", "j", "s", "o", "n">>,
              <<"j", "s", "c", "o", "n", "f", "i", "g", ".", "j", "s", "o", "n">>,
              <<"n", "e", "x", "t", ".", "c", "o", "n", "f", "i", "g", ".", "j", "s">>,
              <<"n", "u", "x", "t", ".", "c", "o", "n", "f", "i", "g", ".", "j", "s">>,
              <<"v", "u", "e", ".", "c", "o", "n", "f", "i", "g", ".", "j", "s">>,
              <<"a", "n", "g", "u", "l", "a", "r", ".", "j", "s", "o", "n">>,
              <<".", "e", "s", "l", "i", "n", "t", "r", "c", ".", "j", "s">>,
              <<".", "e", "s", "l", "i", "n", "t", "r", "c", ".", "j", "s", "o", "n">>,
              <<"p", "r", "e", "t", "t", "i", "e", "r", ".", "c", "o", "n", "f", "i", "g", ".", "j", "s">>,
              <<".", "p", "r", "e", "t", "t", "i", "e", "r", "r", "c">>,
              <<"j", "e", "s", "t", ".", "c", "o", "n", "f", "i", "g", ".", "j", "s">>,
              <<"v", "i", "t", "e", "s", "t", ".", "c", "o", "n", "f", "i", "g", ".", "j", "s">>
            >>,
            \* webpack\..*\.js$
            \* rollup\..*\.js$
            \* vite\..*\.(js|ts)$
            \* .*\.config\.(js|ts|json)$
            filename_patterns |-> <<
              <<<<"w", "e", "b", "p", "a", "c", "k", ".", "*", ".", "j", "s">>>>,
              <<<<"r", "o", "l", "l", "u", "p", ".", "*", ".", "j", "s">>>>,
              <<<<"v", "i", "t", "e", ".", "*", ".", "j", "s">>, <<"v", "i", "t", "e", ".", "*", ".", "t", "s">>>>,
              <<<<"*", ".", "c", "o", "n", "f", "i", "g", ".", "j", "s">>, <<"*", ".", "c", "o", "n", "f", "i", "g", ".", "t", "s">>, <<"*", ".", "c", "o", "n", "f", "i", "g", ".", "j", "s", "o", "n">>>>
            >> ] ],
      [ category |-> "Java/Maven",
        patterns |->
          [ filenames |-> <<
              <<"p", "o", "m", ".", "x", "m", "l">>,
              <<"b", "u", "i", "l", "d", ".", "g", "r", "a", "d", "l", "e">>,
              <<"b", "u", "i", "l", "d", ".", "g", "r", "a", "d", "l", "e", ".", "k", "t", "s">>,
              <<"s", "e", "t", "t", "i", "n", "g", "s", ".", "g", "r", "a", "d", "l", "e">>,
              <<"g", "r", "a", "d", "l", "e", ".", "p", "r", "o", "p", "e", "r", "t", "i", "e", "s">>,
              <<"g", "r", "a", "d", "l", "e", "w">>,
              <<"g", "r", "a", "d", "l", "e", "w", ".", "b", "a", "t">>,
              <<"m", "a", "v", "e", "n", "-", "w", "r", "a", "p", "p", "e", "r", ".", "p", "r", "o", "p", "e", "r", "t", "i", "e", "s">>
            >>,
            \* .*\.gradle$
            \* .*\.gradle\.kts$
            filename_patterns |-> <<
              <<<<"*", ".", "g", "r", "a", "d", "l", "e">>>>,
              <<<<"*", ".", "g", "r", "a", "d", "l", "e", ".", "k", "t", "s">>>>
            >> ] ],
      [ category |-> "C/C++",
        patterns |->
          [ filenames |-> <<
              <<"M", "a", "k", "e", "f", "i", "l", "e">>,
              <<"m", "a", "k", "e", "f", "i", "l", "e">>,
              <<"C", "M", "a", "k", "e", "L", "i", "s", "t", "s", ".", "t", "x", "t">>,
              <<"c", "o", "n", "f", "i", "g", "u", "r", "e", ".", "a", "c">>,
              <<"c", "o", "n", "f", "i", "g", "u", "r", "e", ".", "i", "n">>,
              <<"M", "a", "k", "e", "f", "i", "l", "e", ".", "a", "m">>,
              <<"M", "a", "k", "e", "f", "i", "l", "e", ".", "i", "n">>,
              <<"c", "o", "n", "a", "n", "f", "i", "l", "e", ".", "t", "x", "t">>,
              <<"c", "o", "n", "a", "n", "f", "i", "l", "e", ".", "p", "y">>,
              <<"v", "c", "p", "k", "g", ".", "j", "s", "o", "n">>,
              <<"m", "e", "s", "o", "n", ".", "b", "u", "i", "l", "d">>,
              <<"B", "U", "I", "L", "D">>,
              <<"B", "U", "I", "L", "D", ".", "b", "a", "z", "e", "l">>
            >>,
            \* Makefile\..*$
            \* .*\.mk$
            \* .*\.cmake$
            filename_patterns |-> <<
              <<<<"M", "a", "k", "e", "f", "i", "l", "e", ".", "*">>>>,
              <<<<"*", ".", "m", "k">>>>,
              <<<<"*", ".", "c", "m", "a", "k", "e">>>>
            >> ] ],
      [ category |-> "C#/.NET",
        patterns |->
          [ filenames |-> <<
              <<"D", "i", "r", "e", "c", "t", "o", "r", "y", ".", "B", "u", "i", "l", "d", ".", "p", "r", "o", "p", "s">>,
              <<"D", "i", "r", "e", "c", "t", "o", "r", "y", ".", "B", "u", "i", "l", "d", ".", "t", "a", "r", "g", "e", "t", "s">>,
              <<"D", "i", "r", "e", "c", "t", "o", "r", "y", ".", "P", "a", "c", "k", "a", "g", "e", "s", ".", "p", "r", "o", "p", "s">>,
              <<"g", "l", "o", "b", "a", "l", ".", "j", "s", "o", "n">>,
              <<"n", "u", "g", "e", "t", ".", "c", "o", "n", "f", "i", "g">>,
              <<"N", "u", "G", "e", "t", ".", "C", "o", "n", "f", "i", "g">>,
              <<"p", "a", "c", "k", "a", "g", "e", "s", ".", "c", "o", "n", "f", "i", "g">>,
              <<".", "e", "d", "i", "t", "o", "r", "c", "o", "n", "f", "i", "g">>
            >>,
            \* .*\.csproj$
            \* .*\.vbproj$
            \* .*\.fsproj$
            \* .*\.sln$
            \* .*\.props$
            \* .*\.targets$
            filename_patterns |-> <<
              <<<<"*", ".", "c", "s", "p", "r", "o", "j">>>>,
              <<<<"*", ".", "v", "b", "p", "r", "o", "j">>>>,
              <<<<"*", ".", "f", "s", "p", "r", "o", "j">>>>,
              <<<<"*", ".", "s", "l", "n">>>>,
              <<<<"*", ".", "p", "r", "o", "p", "s">>>>,
              <<<<"*", ".", "t", "a", "r", "g", "e", "t", "s">>>>
            >> ] ],
      [ category |-> "Go",
        patterns |->
          [ filenames |-> <<
              <<"g", "o", ".", "m", "o", "d">>,
              <<"g", "o", ".", "s", "u", "m">>,
              <<"g", "o", ".", "w", "o", "r", "k">>,
              <<"g", "o", ".", "w", "o", "r", "k", ".", "s", "u", "m">>,
              <<"G", "o", "p", "k", "g", ".", "t", "o", "m", "l">>,
              <<"G", "o", "p", "k", "g", ".", "l", "o", "c", "k">>,
              <<"v", "e", "n", "d", "o", "r", ".", "j", "s", "o", "n">>,
              <<"g", "l", "i", "d", "e", ".", "y", "a", "m", "l">>,
              <<"g", "l", "i", "d", "e", ".", "l", "o", "c", "k">>
            >> ] ],
      [ category |-> "Rust",
        patterns |->
          [ filenames |-> <<
              <<"C", "a", "r", "g", "o", ".", "t", "o", "m", "l">>,
              <<"C", "a", "r", "g", "o", ".", "l", "o", "c", "k">>,
              <<"b", "u", "i", "l", "d", ".", "r", "s">>,
              <<"r", "u", "s", "t", "-", "t", "o", "o", "l", "c", "h", "a", "i", "n">>,
              <<"r", "u", "s", "t", "-", "t", "o", "o", "l", "c", "h", "a", "i", "n", ".", "t", "o", "m", "l">>
            >> ] ],
      [ category |-> "Ruby",
        patterns |->
          [ filenames |-> <<
              <<"G", "e", "m", "f", "i", "l", "e">>,
              <<"G", "e", "m", "f", "i", "l", "e", ".", "l", "o", "c", "k">>,
              <<"R", "a", "k", "e", "f", "i", "l", "e">>,
              <<".", "r", "u", "b", "y", "-", "v", "e", "r", "s", "i", "o", "n">>,
              <<".", "r", "v", "m", "r", "c">>,
              <<"g", "e", "m", "s", ".", "r", "b">>,
              <<"g", "e", "m", "s", ".", "l", "o", "c", "k", "e", "d">>
            >>,
            \* .*\.gemspec$
            filename_patterns |-> <<
              <<<<"*", ".", "g", "e", "m", "s", "p", "e", "c">>>>
            >> ] ],
      [ category |-> "PHP",
        patterns |->
          [ filenames |-> <<
              <<"c", "o", "m", "p", "o", "s", "e", "r", ".", "j", "s", "o", "n">>,
              <<"c", "o", "m", "p", "o", "s", "e", "r", ".", "l", "o", "c", "k">>,
              <<"p", "h", "p", "u", "n", "i", "t", ".", "x", "m", "l">>,
              <<"p", "h", "p", "u", "n", "i", "t", ".", "x", "m", "l", ".", "d", "i", "s", "t">>,
              <<"b", "u", "i", "l", "d", ".", "x", "m", "l">>,
              <<"p", "h", "i", "n", "g", ".", "x", "m", "l">>,
              <<"b", "o", "x", ".", "j", "s", "o", "n">>
            >> ] ],
      [ category |-> "Swift",
        patterns |->
          [ filenames |-> <<
              <<"P", "a", "c", "k", "a", "g", "e", ".", "s", "w", "i", "f", "t">>,
              <<"P", "a", "c", "k", "a", "g", "e", ".", "r", "e", "s", "o", "l", "v", "e", "d">>,
              <<"C", "a", "r", "t", "f", "i", "l", "e">>,
              <<"C", "a", "r", "t", "f", "i", "l", "e", ".", "r", "e", "s", "o", "l", "v", "e", "d">>,
              <<"P", "o", "d", "f", "i", "l", "e">>,
              <<"P", "o", "d", "f", "i", "l", "e", ".", "l", "o", "c", "k">>,
              <<"p", "r", "o", "j", "e", "c", "t", ".", "p", "b", "x", "p", "r", "o", "j">>,
              <<"x", "c", "s", "h", "a", "r", "e", "d", "d", "a", "t", "a">>
            >>,
            \* .*\.xcodeproj$
            \* .*\.xcworkspace$
            filename_patterns |-> <<
              <<<<"*", ".", "x", "c", "o", "d", "e", "p", "r", "o", "j">>>>,
              <<<<"*", ".", "x", "c", "w", "o", "r", "k", "s", "p", "a", "c", "e">>>>
            >> ] ],
      [ category |-> "Scala/SBT",
        patterns |->
          [ filenames |-> <<
              <<"b", "u", "i", "l", "d", ".", "s", "b", "t">>,
              <<"p", "r", "o", "j", "e", "c", "t", "/", "b", "u", "i", "l", "d", ".", "p", "r", "o", "p", "e", "r", "t", "i", "e", "s">>,
              <<"p", "r", "o", "j", "e", "c", "t", "/", "p", "l", "u", "g", "i", "n", "s", ".", "s", "b", "t">>
            >>,
            \* .*\.sbt$
            filename_patterns |-> <<
              <<<<"*", ".", "s", "b", "t">>>>
            >> ] ],
      [ category |-> "Docker/Containers",
        patterns |->
          [ filenames |-> <<
              <<"D", "o", "c", "k", "e", "r", "f", "i", "l", "e">>,
              <<"d", "o", "c", "k", "e", "r", "-", "c", "o", "m", "p", "o", "s", "e", ".", "y", "m", "l">>,
              <<"d", "o", "c", "k", "e", "r", "-", "c", "o", "m", "p", "o", "s", "e", ".", "y", "a", "m", "l">>,
              <<"d", "o", "c", "k", "e", "r", "-", "c", "o", "m", "p", "o", "s", "e", ".", "o", "v", "e", "r", "r", "i", "d", "e", ".", "y", "m", "l">>,
              <<".", "d", "o", "c", "k", "e", "r", "i", "g", "n", "o", "r", "e">>,
              <<"C", "o", "n", "t", "a", "i", "n", "e", "r", "f", "i", "l", "e">>
            >>,
            \* Dockerfile\..*$
            \* docker-compose\..*\.ya?ml$
            filename_patterns |-> <<
              <<<<"D", "o", "c", "k", "e", "r", "f", "i", "l", "e", ".", "*">>>>,
              <<<<"d", "o", "c", "k", "e", "r", "-", "c", "o", "m", "p", "o", "s", "e", ".", "*", ".", "y", "a", "m", "l">>, <<"d", "o", "c", "k", "e", "r", "-", "c", "o", "m", "p", "o", "s", "e", ".", "*", ".", "y", "m", "l">>>>
            >> ] ],
      [ category |-> "CI/CD",
        patterns |->
          [ filenames |-> <<
              <<".", "t", "r", "a", "v", "i", "s", ".", "y", "m", "l">>,
              <<"a", "p", "p", "v", "e", "y", "o", "r", ".", "y", "m", "l">>,
              <<"c", "i", "r", "c", "l", "e", ".", "y", "m", "l">>,
              <<"c", "o", "d", "e", "c", "o", "v", ".", "y", "m", "l">>,
              <<".", "c", "o", "d", "e", "c", "o", "v", ".", "y", "m", "l">>,
              <<"a", "z", "u", "r", "e", "-", "p", "i", "p", "e", "l", "i", "n", "e", "s", ".", "y", "m", "l">>,
              <<"b", "i", "t", "b", "u", "c", "k", "e", "t", "-", "p", "i", "p", "e", "l", "i", "n", "e", "s", ".", "y", "m", "l">>,
              <<"b", "u", "i", "l", "d", "s", "p", "e", "c", ".", "y", "m", "l">>,
              <<"c", "l", "o", "u", "d", "b", "u", "i", "l", "d", ".", "y", "a", "m", "l">>,
              <<"c", "l", "o", "u", "d", "b", "u", "i", "l", "d", ".", "y", "m", "l">>,
              <<"J", "e", "n", "k", "i", "n", "s", "f", "i", "l", "e">>,
              <<".", "g", "i", "t", "h", "u", "b", "/", "w", "o", "r", "k", "f", "l", "o", "w", "s">>,
              <<".", "g", "i", "t", "l", "a", "b", "-", "c", "i", ".", "y", "m", "l">>
            >>,
            \* \.travis\.ya?ml$
            \* \.github/workflows/.*\.ya?ml$
            \* \.circleci/.*\.ya?ml$
            filename_patterns |-> <<
              <<<<".", "t", "r", "a", "v", "i", "s", ".", "y", "a", "m", "l">>, <<".", "t", "r", "a", "v", "i", "s", ".", "y", "m", "l">>>>,
              <<<<".", "g", "i", "t", "h", "u", "b", "/", "w", "o", "r", "k", "f", "l", "o", "w", "s", "/", "*", ".", "y", "a", "m", "l">>, <<".", "g", "i", "t", "h", "u", "b", "/", "w", "o", "r", "k", "f", "l", "o", "w", "s", "/", "*", ".", "y", "m", "l">>>>,
              <<<<".", "c", "i", "r", "c", "l", "e", "c", "i", "/", "*", ".", "y", "a", "m", "l">>, <<".", "c", "i", "r", "c", "l", "e", "c", "i", "/", "*", ".", "y", "m", "l">>>>
            >>,
            directory_patterns |-> <<
              <<".", "g", "i", "t", "h", "u", "b", "/", "w", "o", "r", "k", "f", "l", "o", "w", "s">>,
              <<".", "c", "i", "r", "c", "l", "e", "c", "i">>
            >> ] ],
      [ category |-> "Build Tools",
        patterns |->
          [ filenames |-> <<
              <<"T", "a", "s", "k", "f", "i", "l", "e", ".", "y", "m", "l">>,
              <<"T", "a", "s", "k", "f", "i", "l", "e", ".", "y", "a", "m", "l">>,
              <<"j", "u", "s", "t", "f", "i", "l", "e">>,
              <<"d", "o", "d", "o", ".", "p", "y">>,
              <<"i", "n", "v", "o", "k", "e", ".", "y", "a", "m", "l">>,
              <<"i", "n", "v", "o", "k", "e", ".", "y", "m", "l">>,
              <<"n", "o", "x", "f", "i", "l", "e", ".", "p", "y">>,
              <<"f", "a", "b", "f", "i", "l", "e", ".", "p", "y">>
            >> ] ],
      [ category |-> "Linting/Formatting",
        patterns |->
          [ filenames |-> <<
              <<".", "e", "d", "i", "t", "o", "r", "c", "o", "n", "f", "i", "g">>,
              <<".", "g", "i", "t", "i", "g", "n", "o", "r", "e">>,
              <<".", "g", "i", "t", "a", "t", "t", "r", "i", "b", "u", "t", "e", "s">>,
              <<".", "p", "r", "e", "-", "c", "o", "m", "m", "i", "t", "-", "c", "o", "n", "f", "i", "g", ".", "y", "a", "m", "l">>,
              <<".", "c", "l", "a", "n", "g", "-", "f", "o", "r", "m", "a", "t">>,
              <<".", "c", "l", "a", "n", "g", "-", "t", "i", "d", "y">>,
              <<"p", "y", "p", "r", "o", "j", "e", "c", "t", ".", "t", "o", "m", "l">>,
              <<"s", "e", "t", "u", "p", ".", "c", "f", "g">>,
              <<"t", "o", "x", ".", "i", "n", "i">>,
              <<".", "p", "y", "l", "i", "n", "t", "r", "c">>,
              <<"m", "y", "p", "y", ".", "i", "n", "i">>,
              <<".", "i", "s", "o", "r", "t", ".", "c", "f", "g">>,
              <<".", "y", "a", "p", "f", "r", "c">>,
              <<".", "b", "l", "a", "c", "k">>,
              <<"r", "u", "f", "f", ".", "t", "o", "m", "l">>,
              <<".", "r", "u", "f", "f", ".", "t", "o", "m", "l">>
            >>,
            \* \..*rc$
            \* \..*ignore$
            filename_patterns |-> <<
              <<<<".", "*", "r", "c">>>>,
              <<<<".", "*", "i", "g", "n", "o", "r", "e">>>>
            >> ] ]
    >>

\* test_counter.py, self.test_patterns (lines 16-97), in the order of its keys
test_patterns ==
    <<
      [ category |-> "Python",
        patterns |->
          [ extensions |-> <<
              <<".", "p", "y">>
            >>,
            \* test_.*\.py$
            \* .*_test\.py$
            \* .*tests\.py$
            \* test.*\.py$
            filename_patterns |-> <<
              <<<<"t", "e", "s", "t", "_", "*", ".", "p", "y">>>>,
              <<<<"*", "_", "t", "e", "s", "t", ".", "p", "y">>>>,
              <<<<"*", "t", "e", "s", "t", "s", ".", "p", "y">>>>,
              <<<<"t", "e", "s", "t", "*", ".", "p", "y">>>>
            >>,
            directory_patterns |-> <<
              <<"t", "e", "s", "t">>, <<"t", "e", "s", "t", "s">>,
              <<"t", "e", "s", "t", "i", "n", "g">>
            >> ] ],
      [ category |-> "JavaScript/TypeScript",
        patterns |->
          [ extensions |-> <<
              <<".", "j", "s">>, <<".", "t", "s">>, <<".", "j", "s", "x">>,
              <<".", "t", "s", "x">>, <<".", "m", "j", "s">>
            >>,
            \* .*\.test\.(js|ts|jsx|tsx|mjs)$
            \* .*\.spec\.(js|ts|jsx|tsx|mjs)$
            \* test.*\.(js|ts|jsx|tsx|mjs)$
            filename_patterns |-> <<
              <<<<"*", ".", "t", "e", "s", "t", ".", "j", "s">>, <<"*", ".", "t", "e", "s", "t", ".", "t", "s">>, <<"*", ".", "t", "e", "s", "t", ".", "j", "s", "x">>, <<"*", ".", "t", "e", "s", "t", ".", "t", "s", "x">>, <<"*", ".", "t", "e", "s", "t", ".", "m", "j", "s">>>>,
              <<<<"*", ".", "s", "p", "e", "c", ".", "j", "s">>, <<"*", ".", "s", "p", "e", "c", ".", "t", "s">>, <<"*", ".", "s", "p", "e", "c", ".", "j", "s", "x">>, <<"*", ".", "s", "p", "e", "c", ".", "t", "s", "x">>, <<"*", ".", "s", "p", "e", "c", ".", "m", "j", "s">>>>,
              <<<<"t", "e", "s", "t", "*", ".", "j", "s">>, <<"t", "e", "s", "t", "*", ".", "t", "s">>, <<"t", "e", "s", "t", "*", ".", "j", "s", "x">>, <<"t", "e", "s", "t", "*", ".", "t", "s", "x">>, <<"t", "e", "s", "t", "*", ".", "m", "j", "s">>>>
            >>,
            directory_patterns |-> <<
              <<"t", "e", "s", "t">>, <<"t", "e", "s", "t", "s">>,
              <<"_", "_", "t", "e", "s", "t", "s", "_", "_">>,
              <<"s", "p", "e", "c">>, <<"s", "p", "e", "c", "s">>
            >> ] ],
      [ category |-> "Java",
        patterns |->
          [ extensions |-> <<
              <<".", "j", "a", "v", "a">>
            >>,
            \* .*Test\.java$
            \* .*Tests\.java$
            \* Test.*\.java$
            filename_patterns |-> <<
              <<<<"*", "T", "e", "s", "t", ".", "j", "a", "v", "a">>>>,
              <<<<"*", "T", "e", "s", "t", "s", ".", "j", "a", "v", "a">>>>,
              <<<<"T", "e", "s", "t", "*", ".", "j", "a", "v", "a">>>>
            >>,
            directory_patterns |-> <<
              <<"t", "e", "s", "t">>, <<"t", "e", "s", "t", "s">>,
              <<"s", "r", "c", "/", "t", "e", "s", "t">>
            >> ] ],
      [ category |-> "Go",
        patterns |->
          [ extensions |-> <<
              <<".", "g", "o">>
            >>,
            \* .*_test\.go$
            filename_patterns |-> <<
              <<<<"*", "_", "t", "e", "s", "t", ".", "g", "o">>>>
            >>,
            directory_patterns |-> << >> ] ],
      [ category |-> "Ruby",
        patterns |->
          [ extensions |-> <<
              <<".", "r", "b">>
            >>,
            \* .*_spec\.rb$
            \* .*_test\.rb$
            \* spec_.*\.rb$
            \* test_.*\.rb$
            filename_patterns |-> <<
              <<<<"*", "_", "s", "p", "e", "c", ".", "r", "b">>>>,
              <<<<"*", "_", "t", "e", "s", "t", ".", "r", "b">>>>,
              <<<<"s", "p", "e", "c", "_", "*", ".", "r", "b">>>>,
              <<<<"t", "e", "s", "t", "_", "*", ".", "r", "b">>>>
            >>,
            directory_patterns |-> <<
              <<"t", "e", "s", "t">>, <<"t", "e", "s", "t", "s">>,
              <<"s", "p", "e", "c">>, <<"s", "p", "e", "c", "s">>
            >> ] ],
      [ category |-> "C#",
        patterns |->
          [ extensions |-> <<
              <<".", "c", "s">>
            >>,
            \* .*\.Tests\.cs$
            \* .*Test\.cs$
            \* .*Tests\.cs$
            \* Test.*\.cs$
            filename_patterns |-> <<
              <<<<"*", ".", "T", "e", "s", "t", "s", ".", "c", "s">>>>,
              <<<<"*", "T", "e", "s", "t", ".", "c", "s">>>>,
              <<<<"*", "T", "e", "s", "t", "s", ".", "c", "s">>>>,
              <<<<"T", "e", "s", "t", "*", ".", "c", "s">>>>
            >>,
            directory_patterns |-> <<
              <<"t", "e", "s", "t">>, <<"t", "e", "s", "t", "s">>,
              <<"T", "e", "s", "t">>, <<"T", "e", "s", "t", "s">>
            >> ] ],
      [ category |-> "PHP",
        patterns |->
          [ extensions |-> <<
              <<".", "p", "h", "p">>
            >>,
            \* .*Test\.php$
            \* .*_test\.php$
            \* test_.*\.php$
            filename_patterns |-> <<
              <<<<"*", "T", "e", "s", "t", ".", "p", "h", "p">>>>,
              <<<<"*", "_", "t", "e", "s", "t", ".", "p", "h", "p">>>>,
              <<<<"t", "e", "s", "t", "_", "*", ".", "p", "h", "p">>>>
            >>,
            directory_patterns |-> <<
              <<"t", "e", "s", "t">>, <<"t", "e", "s", "t", "s">>,
              <<"T", "e", "s", "t">>, <<"T", "e", "s", "t", "s">>
            >> ] ],
      [ category |-> "Rust",
        patterns |->
          [ extensions |-> <<
              <<".", "r", "s">>
            >>,
            \* .*_test\.rs$
            \* test_.*\.rs$
            filename_patterns |-> <<
              <<<<"*", "_", "t", "e", "s", "t", ".", "r", "s">>>>,
              <<<<"t", "e", "s", "t", "_", "*", ".", "r", "s">>>>
            >>,
            directory_patterns |-> <<
              <<"t", "e", "s", "t", "s">>
            >> ] ],
      [ category |-> "Swift",
        patterns |->
          [ extensions |-> <<
              <<".", "s", "w", "i", "f", "t">>
            >>,
            \* .*Test\.swift$
            \* .*Tests\.swift$
            filename_patterns |-> <<
              <<<<"*", "T", "e", "s", "t", ".", "s", "w", "i", "f", "t">>>>,
              <<<<"*", "T", "e", "s", "t", "s", ".", "s", "w", "i", "f", "t">>>>
            >>,
            directory_patterns |-> <<
              <<"t", "e", "s", "t">>, <<"t", "e", "s", "t", "s">>,
              <<"T", "e", "s", "t">>, <<"T", "e", "s", "t", "s">>
            >> ] ]
    >>

\* iac_counter.py, self.iac_patterns (lines 17-34), in the order of its keys
iac_patterns ==
    <<
      [ category |-> "Terraform",
        patterns |->
          [ extensions |-> <<
              <<".", "t", "f">>, <<".", "t", "f", "v", "a", "r", "s">>,
              <<".", "t", "f", "s", "t", "a", "t", "e">>
            >>,
            filenames |-> <<
              <<"t", "e", "r", "r", "a", "f", "o", "r", "m", ".", "t", "f", "v", "a", "r", "s">>,
              <<"t", "e", "r", "r", "a", "f", "o", "r", "m", ".", "t", "f", "s", "t", "a", "t", "e", ".", "b", "a", "c", "k", "u", "p">>
            >>,
            directories |-> <<
              <<"t", "e", "r", "r", "a", "f", "o", "r", "m">>,
              <<".", "t", "e", "r", "r", "a", "f", "o", "r", "m">>
            >> ] ],
      [ category |-> "Kubernetes",
        patterns |->
          [ extensions |-> <<
              <<".", "y", "a", "m", "l">>, <<".", "y", "m", "l">>
            >>,
            filenames |-> <<
              <<"d", "e", "p", "l", "o", "y", "m", "e", "n", "t", ".", "y", "a", "m", "l">>,
              <<"s", "e", "r", "v", "i", "c", "e", ".", "y", "a", "m", "l">>,
              <<"c", "o", "n", "f", "i", "g", "m", "a", "p", ".", "y", "a", "m", "l">>,
              <<"s", "e", "c", "r", "e", "t", ".", "y", "a", "m", "l">>
            >>,
            directories |-> <<
              <<"k", "8", "s">>,
              <<"k", "u", "b", "e", "r", "n", "e", "t", "e", "s">>,
              <<"m", "a", "n", "i", "f", "e", "s", "t", "s">>
            >>,
            keywords |-> <<
              <<"a", "p", "i", "V", "e", "r", "s", "i", "o", "n", ":">>,
              <<"k", "i", "n", "d", ":">>,
              <<"m", "e", "t", "a", "d", "a", "t", "a", ":">>,
              <<"s", "p", "e", "c", ":">>
            >> ] ]
    >>


-----------------------------------------------------------------------------
(* build_counter.py, test_counter.py, iac_counter.py: the file classifiers. *)
(* A file path is the text of a pathlib.Path, its parts separated by "/".   *)

\* the key d.get(key, []) reads, or the empty list
Get(rules, key) == IF key \in DOMAIN rules THEN rules[key] ELSE << >>

\* x in list
InList(x, list) == \E k \in 1..Len(list) : list[k] = x

\* Path.name: the last part of the path
PathName(file_path) == LastSegment(file_path)

\* Path.suffix: the name from its last dot on, unless that dot stands first
\* or last in the name
PathSuffix(file_path) ==
    LET name == PathName(file_path)
        dots == {i \in 1..Len(name) : name[i] = "."}
    IN  IF dots = {} THEN << >>
        ELSE LET i == SetMax(dots)
             IN  IF 1 < i /\ i < Len(name) THEN SubSeq(name, i, Len(name))
                 ELSE << >>

\* Path.parts: the root "/" of an absolute path, then the texts between the
\* separators
RECURSIVE SplitParts(_, _)
SplitParts(s, cur) ==
    IF s = << >> THEN (IF cur = << >> THEN << >> ELSE <<cur>>)
    ELSE IF Head(s) = "/"
         THEN (IF cur = << >> THEN << >> ELSE <<cur>>) \o SplitParts(Tail(s), << >>)
         ELSE SplitParts(Tail(s), Append(cur, Head(s)))

PathParts(file_path) ==
    (IF file_path # << >> /\ Head(file_path) = "/" THEN << <<"/">> >> ELSE << >>)
        \o SplitParts(file_path, << >>)

\* re.match(pattern, filename, re.IGNORECASE) for a pattern of the tables
re_match(pattern, filename) ==
    \E k \in 1..Len(pattern) : fnmatch(Lower(filename), Lower(pattern[k]))

\* what the classifiers return for a file of no category
None == "None"

\* BuildFileCounter._check_directory_context: a pattern is a substring of the
\* whole path
BuildDirectoryContext(file_path, directory_patterns) ==
    \E k \in 1..Len(directory_patterns) :
        Contains(file_path, directory_patterns[k])

\* BuildFileCounter.is_build_file, the loop over build_patterns.items() from
\* the i-th item on
RECURSIVE IsBuildFileFrom(_, _, _)
IsBuildFileFrom(items, i, file_path) ==
    IF i > Len(items) THEN None
    ELSE LET rules == items[i].patterns
             filename == PathName(file_path)
             filename_lower == Lower(filename)
             filenames == Get(rules, "filenames")
             filename_patterns == Get(rules, "filename_patterns")
         IN  IF \/ InList(filename, filenames)
                \/ InList(filename_lower,
                          [k \in 1..Len(filenames) |-> Lower(filenames[k])])
                \/ \E k \in 1..Len(filename_patterns) :
                      re_match(filename_patterns[k], filename)
                \/ BuildDirectoryContext(file_path, Get(rules, "directory_patterns"))
             THEN items[i].category
             ELSE IsBuildFileFrom(items, i + 1, file_path)

is_build_file(file_path) == IsBuildFileFrom(build_patterns, 1, file_path)

\* TestFileCounter and IaCCounter, _check_directory_context: a pattern equals
\* a part of the path, both lowercased
PartsDirectoryContext(file_path, directory_patterns) ==
    LET parts == PathParts(file_path)
        path_parts == [k \in 1..Len(parts) |-> Lower(parts[k])]
    IN  \E k \in 1..Len(directory_patterns) :
            InList(Lower(directory_patterns[k]), path_parts)

\* TestFileCounter.is_test_file, the loop over test_patterns.items() from the
\* i-th item on
RECURSIVE IsTestFileFrom(_, _, _)
IsTestFileFrom(items, i, file_path) ==
    IF i > Len(items) THEN None
    ELSE LET rules == items[i].patterns
             filename == PathName(file_path)
             extension == Lower(PathSuffix(file_path))
             filename_patterns == Get(rules, "filename_patterns")
         IN  IF /\ InList(extension, Get(rules, "extensions"))
                /\ \/ \E k \in 1..Len(filename_patterns) :
                         re_match(filename_patterns[k], filename)
                   \/ PartsDirectoryContext(file_path,
                                            Get(rules, "directory_patterns"))
             THEN items[i].category
             ELSE IsTestFileFrom(items, i + 1, file_path)

is_test_file(file_path) == IsTestFileFrom(test_patterns, 1, file_path)

\* the extensions whose files need a keyword or a directory to count
CommonExtensions ==
    << <<".", "y", "a", "m", "l">>, <<".", "y", "m", "l">>,
       <<".", "j", "s", "o", "n">> >>

\* IaCCounter._check_content_keywords on a file whose text is content; a
\* file that cannot be read or decoded has content Unreadable
Unreadable == <<"?">>

CheckContentKeywords(content, keywords) ==
    /\ keywords # << >>
    /\ content # Unreadable
    /\ \E k \in 1..Len(keywords) : Contains(Lower(content), Lower(keywords[k]))

\* IaCCounter.is_iac_file, the loop over iac_patterns.items() from the i-th
\* item on
RECURSIVE IsIacFileFrom(_, _, _, _)
IsIacFileFrom(items, i, file_path, content) ==
    IF i > Len(items) THEN None
    ELSE LET rules == items[i].patterns
             filename == Lower(PathName(file_path))
             extension == Lower(PathSuffix(file_path))
             filenames == Get(rules, "filenames")
         IN  IF \/ InList(filename, [k \in 1..Len(filenames) |-> Lower(filenames[k])])
                \/ /\ InList(extension, Get(rules, "extensions"))
                   /\ IF InList(extension, CommonExtensions)
                      THEN \/ CheckContentKeywords(content, Get(rules, "keywords"))
                           \/ PartsDirectoryContext(file_path,
                                                    Get(rules, "directories"))
                      ELSE TRUE
             THEN items[i].category
             ELSE IsIacFileFrom(items, i + 1, file_path, content)

is_iac_file(file_path, content) == IsIacFileFrom(iac_patterns, 1, file_path, content)

-----------------------------------------------------------------------------
(* build_counter.py, test_counter.py, iac_counter.py: the counter objects, *)
(* the directory trees they walk and the temporary clone directory.        *)

\* the three scripts, and the class each one's main instantiates
CounterTools == {"build_counter", "test_counter", "iac_counter"}
CounterClasses == {"BuildFileCounter", "TestFileCounter", "IaCCounter"}

KindOf(t) ==
    CASE t \in {"build_counter", "BuildFileCounter"} -> "build"
      [] t \in {"test_counter", "TestFileCounter"}   -> "test"
      [] t \in {"iac_counter", "IaCCounter"}         -> "iac"

\* __init__: the per-category lists (a defaultdict, empty), the two totals
\* (total_build_files, total_test_files or total_files; total_files_scanned)
\* and temp_dir
NewCounter ==
    [files |-> << >>, total |-> 0, total_files_scanned |-> 0, temp_dir |-> None]

\* tempfile.mkdtemp(prefix=...): a fresh directory under the system's
\* temporary directory
mkdtemp(kind) ==
    CASE kind = "build" -> <<"/", "t", "m", "p", "/", "b", "u", "i", "l", "d", "_", "a", "n", "a", "l", "y", "s", "i", "s", "_", "x">>
      [] kind = "test"  -> <<"/", "t", "m", "p", "/", "t", "e", "s", "t", "_", "a", "n", "a", "l", "y", "s", "i", "s", "_", "x">>
      [] kind = "iac"   -> <<"/", "t", "m", "p", "/", "i", "a", "c", "_", "a", "n", "a", "l", "y", "s", "i", "s", "_", "x">>

\* a local directory given on the command line
LocalDirectory == <<".">>

\* Path(root) / file for a file at the relative path rel under directory
JoinPath(directory, rel) ==
    IF directory = LocalDirectory THEN rel ELSE directory \o <<"/">> \o rel

\* the names os.walk is told not to descend into
BuildSkippedDirs ==
    { <<"n", "o", "d", "e", "_", "m", "o", "d", "u", "l", "e", "s">>,
      <<"_", "_", "p", "y", "c", "a", "c", "h", "e", "_", "_">>,
      <<"v", "e", "n", "v">>,
      <<"e", "n", "v">>,
      <<"t", "a", "r", "g", "e", "t">>,
      <<"b", "u", "i", "l", "d">>,
      <<"d", "i", "s", "t">>,
      <<"v", "e", "n", "d", "o", "r">> }

TestSkippedDirs ==
    { <<"n", "o", "d", "e", "_", "m", "o", "d", "u", "l", "e", "s">>,
      <<"_", "_", "p", "y", "c", "a", "c", "h", "e", "_", "_">>,
      <<".", "g", "i", "t">>,
      <<"v", "e", "n", "v">>,
      <<"e", "n", "v">>,
      <<"t", "a", "r", "g", "e", "t">>,
      <<"b", "u", "i", "l", "d">>,
      <<"d", "i", "s", "t">>,
      <<"v", "e", "n", "d", "o", "r">> }

IacSkippedDirs ==
    { <<"n", "o", "d", "e", "_", "m", "o", "d", "u", "l", "e", "s">>,
      <<"_", "_", "p", "y", "c", "a", "c", "h", "e", "_", "_">>,
      <<".", "g", "i", "t">>,
      <<"v", "e", "n", "v">>,
      <<"e", "n", "v">> }

\* the hidden directories build_counter does descend into
BuildKeptHiddenDirs ==
    { <<".", "g", "i", "t", "h", "u", "b">>,
      <<".", "c", "i", "r", "c", "l", "e", "c", "i">> }

Hidden(name) == name # << >> /\ Head(name) = "."

\* the comprehension that filters dirs: whether directory d is left out
SkipsDir(kind, d) ==
    CASE kind = "build" -> \/ Hidden(d) /\ d \notin BuildKeptHiddenDirs
                           \/ d \in BuildSkippedDirs
      [] kind = "test"  -> Hidden(d) \/ d \in TestSkippedDirs
      [] kind = "iac"   -> Hidden(d) \/ d \in IacSkippedDirs

\* whether the walk yields the file at relative path rel and the loop does
\* not skip it: no directory above it is left out, and for test_counter and
\* iac_counter its name does not start with a dot
Yielded(kind, rel) ==
    LET parts == SplitParts(rel, << >>)
    IN  /\ parts # << >>
        /\ \A k \in 1..(Len(parts) - 1) : ~SkipsDir(kind, parts[k])
        /\ kind \in {"test", "iac"} => ~Hidden(parts[Len(parts)])

SetupPyFile ==
    [path |-> <<"s", "e", "t", "u", "p", ".", "p", "y">>,
     content |-> <<"x">>]
CircleciMk ==
    [path |-> <<".", "c", "i", "r", "c", "l", "e", "c", "i", "/", "a", ".", "m", "k">>,
     content |-> << >>]
ReadmeMd ==
    [path |-> <<"R", "E", "A", "D", "M", "E", ".", "m", "d">>,
     content |-> <<"x">>]
NodeModulesPackageJson ==
    [path |-> <<"n", "o", "d", "e", "_", "m", "o", "d", "u", "l", "e", "s", "/", "p", "a", "c", "k", "a", "g", "e", ".", "j", "s", "o", "n">>,
     content |-> <<"x">>]

\* the files a build_counter tree is built from: setup.py, .circleci/a.mk, README.md, node_modules/package.json
BuildSampleFiles == { SetupPyFile, CircleciMk, ReadmeMd, NodeModulesPackageJson }

TestsAPy ==
    [path |-> <<"t", "e", "s", "t", "s", "/", "a", ".", "p", "y">>,
     content |-> <<"x">>]
ATestGo ==
    [path |-> <<"a", "_", "t", "e", "s", "t", ".", "g", "o">>,
     content |-> << >>]
MainPyFile ==
    [path |-> <<"m", "a", "i", "n", ".", "p", "y">>,
     content |-> <<"x">>]
HiddenTestPy ==
    [path |-> <<".", "t", "e", "s", "t", "_", "a", ".", "p", "y">>,
     content |-> <<"x">>]

\* the files a test_counter tree is built from: tests/a.py, a_test.go, main.py, .test_a.py
TestSampleFiles == { TestsAPy, ATestGo, MainPyFile, HiddenTestPy }

MainTf ==
    [path |-> <<"m", "a", "i", "n", ".", "t", "f">>,
     content |-> <<"x">>]
PodYaml ==
    [path |-> <<"a", ".", "y", "a", "m", "l">>,
     content |-> <<"k", "i", "n", "d", ":", " ", "P", "o", "d">>]
PlainYml ==
    [path |-> <<"b", ".", "y", "m", "l">>,
     content |-> <<"x">>]
K8sUnreadableYml ==
    [path |-> <<"k", "8", "s", "/", "c", ".", "y", "m", "l">>,
     content |-> <<"?">>]

\* the files a iac_counter tree is built from: main.tf, a.yaml, b.yml, k8s/c.yml
IacSampleFiles == { MainTf, PodYaml, PlainYml, K8sUnreadableYml }

SampleFiles(kind) ==
    CASE kind = "build" -> BuildSampleFiles
      [] kind = "test"  -> TestSampleFiles
      [] kind = "iac"   -> IacSampleFiles

\* the directory trees a scan may meet: at most MaxFiles of the sample files
Trees(kind) == {t \in SUBSET SampleFiles(kind) : Cardinality(t) <= MaxFiles}

\* is_build_file, is_test_file or is_iac_file on the file at file_path
CategoryOf(kind, file_path, content) ==
    CASE kind = "build" -> is_build_file(file_path)
      [] kind = "test"  -> is_test_file(file_path)
      [] kind = "iac"   -> is_iac_file(file_path, content)

\* the record appended for a matched file: its path relative to the scanned
\* directory and, in build_counter and test_counter, its size
Entry(kind, file) ==
    IF kind = "iac" THEN [path |-> file.path]
    ELSE [path |-> file.path, size |-> Len(file.content)]

\* d[k].append(v) on a defaultdict(list) kept in insertion order
DictAppend(d, k, v) ==
    IF \E i \in 1..Len(d) : d[i].key = k
    THEN [i \in 1..Len(d) |->
             IF d[i].key = k THEN [key |-> k, val |-> Append(d[i].val, v)] ELSE d[i]]
    ELSE Append(d, [key |-> k, val |-> <<v>>])

ScanOneUncounted(kind, self, directory, file) ==
    LET category == CategoryOf(kind, JoinPath(directory, file.path), file.content)
    IN  [self EXCEPT
            !.total_files_scanned = @ + 1,
            !.files = IF category # None
                      THEN DictAppend(@, category, Entry(kind, file)) ELSE @]

\* the body of the loop over files, for one file: the file is counted as
\* scanned, classified, and if it has a category appended to that category's
\* list and counted as matched
ScanOne(kind, self, directory, file) ==
    LET category == CategoryOf(kind, JoinPath(directory, file.path), file.content)
    IN  [self EXCEPT
            !.total_files_scanned = @ + 1,
            !.files = IF category # None
                      THEN DictAppend(@, category, Entry(kind, file)) ELSE @,
            !.total = IF category # None THEN @ + 1 ELSE @]

CleanupTempDirKeeps(self, exists) ==
    {[exists |-> exists, did |-> "nothing"]}

\* cleanup_temp_dir: nothing to do when temp_dir is None or names no existing
\* directory; otherwise shutil.rmtree removes the directory, or raises and
\* the handler prints a warning and leaves it
cleanup_temp_dir(self, exists) ==
    IF self.temp_dir # None /\ exists
    THEN {[exists |-> FALSE, did |-> "removed"],
          [exists |-> TRUE, did |-> "warned"]}
    ELSE {[exists |-> exists, did |-> "nothing"]}


-----------------------------------------------------------------------------
(* The command line argument.                                              *)

RECURSIVE SeqsUpTo(_, _)
SeqsUpTo(chars, len) ==
    IF len = 0 THEN {<<>>}
    ELSE LET shorter == SeqsUpTo(chars, len - 1)
         IN  shorter \cup {Append(s, c) : s \in shorter, c \in chars}

NameChars == {"a", ".", "g", "i", "t"}
OwnerChars == {"a", "g"}
Names == SeqsUpTo(NameChars, MaxLen)
Owners == SeqsUpTo(OwnerChars, MaxOwnerLen)

Forms == {"https", "https_slash", "https_git", "ssh", "ssh_nogit",
          "bare", "bare_slash", "padded", "word"}

\* forms with text after the name segment: o/n/c and
\* https://github.com/o/n/tree/main
TrailingForms == {"bare_extra", "https_tree"}

TreeMain == <<"/", "t", "r", "e", "e", "/", "m", "a", "i", "n">>

\* the argument text written in form f with owner segment o and name segment n
Render(f, o, n) ==
    CASE f = "https"       -> HttpsPrefix \o o \o <<"/">> \o n
      [] f = "https_slash" -> HttpsPrefix \o o \o <<"/">> \o n \o <<"/">>
      [] f = "https_git"   -> HttpsPrefix \o o \o <<"/">> \o n \o DotGit
      [] f = "ssh"         -> SshPrefix \o o \o <<"/">> \o n \o DotGit
      [] f = "ssh_nogit"   -> SshPrefix \o o \o <<"/">> \o n
      [] f = "bare"        -> o \o <<"/">> \o n
      [] f = "bare_slash"  -> o \o <<"/">> \o n \o <<"/">>
      [] f = "padded"      -> <<" ">> \o o \o <<"/">> \o n \o <<" ">>
      [] f = "word"        -> o \o n
      [] f = "bare_extra"  -> o \o <<"/">> \o n \o <<"/", "c">>
      [] f = "https_tree"  -> HttpsPrefix \o o \o <<"/">> \o n \o TreeMain
      [] f = "literal"     -> NotAValidRef

\* every argument within the bounds
AllInputs == (Forms \X Owners \X Names) \cup {<<"literal", <<>>, <<>>>>}

\* every argument within the bounds, with and without trailing text
ParseInputs == AllInputs \cup (TrailingForms \X Owners \X Names)

\* the arguments the two scripts are run with: one that parses, and every one
\* within the bounds that parse_github_url rejects
RunInputs ==
    { <<"bare", <<"a">>, <<"a", "a">>>> }
    \cup {in \in AllInputs : parse_github_url(Render(in[1], in[2], in[3])).raised}

-----------------------------------------------------------------------------
(* parse_github_url alone, on every argument within the bounds.            *)

NotParsed == [raised |-> FALSE, owner |-> <<>>, repo |-> <<>>]

\* line 146: GITHUB_TOKEN = None, and os.getenv of a variable that is not set
NoToken == [set |-> FALSE, value |-> ""]

\* the environment (or .env) the run starts in: with or without GITHUB_TOKEN
EnvTokens == {NoToken, [set |-> TRUE, value |-> "ghp_a"]}

\* no Authorization entry in the headers of a request (none issued yet)
NoAuthorization == <<>>

\* str() of the token inside the f-string: None is rendered as "None"
FormatToken(token) == IF token.set THEN token.value ELSE "None"

AuthorizationHeaderOnlyWithToken(token) ==
    IF token.set THEN <<"token ", token.value>> ELSE NoAuthorization

\* lines 167-168 and 227-228: headers["Authorization"] = f"token {GITHUB_TOKEN}"
AuthorizationHeader(token) == <<"token ", FormatToken(token)>>

SinkAbsent == [written |-> FALSE, complete |-> FALSE, name |-> <<>>, data |-> <<>>]

NoStats == [none |-> TRUE, totals |-> <<>>]

InitRest ==
    /\ parsed = NotParsed
    /\ owner = <<>> /\ repo = <<>>
    /\ ret = "running" /\ outcome = "" /\ interruptedAt = ""
    /\ page = 1 /\ all_commits = <<>> /\ lastSize = 0 /\ lastListStatus = 0
    /\ nListReqs = 0 /\ nListFails = 0 /\ retried = FALSE /\ nSleeps = 0
    /\ transportErr = FALSE
    /\ idx = 1 /\ data_we_need = <<>> /\ nDetailReqs = 0 /\ reqSha = 0
    /\ lastDetailStatus = 0 /\ nDetailFails = 0
    /\ sink = SinkAbsent /\ nWrites = 0
    /\ nStatsReqs = 0 /\ n202 = 0 /\ nBackoffs = 0 /\ stats = NoStats
    /\ lastStatsStatus = 0 /\ lastPayload = <<>>
    /\ classifier = GitHubFileClassifier /\ calls = <<>>
    /\ counter = NewCounter /\ tmpExists = FALSE /\ toVisit = {}
    /\ cleanups = <<>> /\ nScans = 0
    /\ GITHUB_TOKEN = NoToken /\ lastAuthorization = NoAuthorization

InitParse ==
    /\ tool = "parse_github_url"
    /\ \E in \in ParseInputs :
          /\ argForm = in[1] /\ argOwner = in[2] /\ argName = in[3]
    /\ arg = Render(argForm, argOwner, argName)
    /\ pc = "parse_call"
    /\ envToken = NoToken /\ faulty = TRUE
    /\ InitRest

ParseCall ==
    /\ pc = "parse_call"
    /\ parsed' = parse_github_url(arg)
    /\ pc' = "parse_done"
    /\ UNCHANGED <<tool, argForm, argOwner, argName, arg, owner, repo, ret,
                   outcome, interruptedAt, scraperVars, statsVars, classifierVars, counterVars,
                   authVars, faulty>>

NextParse == ParseCall

SpecParse == InitParse /\ [][NextParse]_vars

-----------------------------------------------------------------------------
(* classify_file alone: one GitHubFileClassifier instance called on several *)
(* paths in a row, as get_commit_changed_files calls it on the filename of  *)
(* every changed file of a commit.                                          *)

\* paths of changed files
SrcMainPy == <<"s", "r", "c", "/", "m", "a", "i", "n", ".", "p", "y">>
TestsTestFooPy ==
    <<"t", "e", "s", "t", "s", "/", "t", "e", "s", "t", "_", "f", "o", "o", ".", "p", "y">>
PackageJson == <<"p", "a", "c", "k", "a", "g", "e", ".", "j", "s", "o", "n">>
DockerfilePath == <<"D", "o", "c", "k", "e", "r", "f", "i", "l", "e">>
RandomfileXyz ==
    <<"r", "a", "n", "d", "o", "m", "f", "i", "l", "e", ".", "x", "y", "z">>
TestConfigJson ==
    <<"t", "e", "s", "t", "/", "c", "o", "n", "f", "i", "g", ".", "j", "s", "o", "n">>

K8sDeployYml == <<"k", "8", "s", "/", "d", "e", "p", "l", "o", "y", ".", "y", "m", "l">>
DockerfileUpper == <<"D", "O", "C", "K", "E", "R", "F", "I", "L", "E">>
MainPyUpper == <<"M", "a", "i", "n", ".", "P", "Y">>
FooTestJs == <<"f", "o", "o", ".", "t", "e", "s", "t", ".", "j", "s">>
SetupPy == <<"s", "e", "t", "u", "p", ".", "p", "y">>

\* src/main.py, tests/test_foo.py, package.json, Dockerfile, randomfile.xyz,
\* test/config.json, k8s/deploy.yml, DOCKERFILE, Main.PY, foo.test.js, setup.py
ClassifyPaths ==
    { SrcMainPy, TestsTestFooPy, PackageJson, DockerfilePath, RandomfileXyz,
      TestConfigJson, K8sDeployYml, DockerfileUpper, MainPyUpper, FooTestJs,
      SetupPy }

SelfAfterClassifyForgetting(self, filepath) ==
    [self EXCEPT !.file_patterns = IF @ = <<>> THEN @ ELSE Tail(@)]

\* classify_file reads self.file_patterns and assigns to no attribute of self
SelfAfterClassify(self, filepath) == self

InitClassify ==
    /\ tool = "classify_file"
    /\ argForm = "literal" /\ argOwner = <<>> /\ argName = <<>>
    /\ arg = <<>>
    /\ pc = "classify_call"
    /\ envToken = NoToken /\ faulty = TRUE
    /\ InitRest

ClassifyCall ==
    /\ pc = "classify_call"
    /\ Len(calls) < MaxCalls
    /\ \E filepath \in ClassifyPaths :
          /\ calls' = Append(calls, [filepath |-> filepath,
                                     category |-> classify_file(classifier, filepath)])
          /\ classifier' = SelfAfterClassify(classifier, filepath)
    /\ UNCHANGED <<tool, argForm, argOwner, argName, arg, pc, parsed, owner,
                   repo, ret, outcome, interruptedAt, scraperVars, statsVars,
                   authVars, faulty, counterVars>>

NextClassify == ClassifyCall

SpecClassify == InitClassify /\ [][NextClassify]_vars

-----------------------------------------------------------------------------
(* The mocked host.                                                        *)

\* per_page: the page size get_all_commits asks for
per_page == 100

\* sizes of the short page that ends a listing
PartialSizes == {0, 2, 37, 99}

\* non-200 statuses the listing endpoint may answer
ListFailStatuses == {403, 500}

\* non-200 statuses the commit detail endpoint may answer
DetailFailStatuses == {202, 404, 500}

\* the sha of the i-th commit of page p
ShaOf(p, i) == (p - 1) * per_page + i

\* the commits a 200 listing response of the given size carries for page p
PageCommits(p, size) == [i \in 1..size |-> ShaOf(p, i)]

\* a short page in which the host lists its first commit a second time
RepeatedPage(p) == <<ShaOf(p, 1), ShaOf(p, 2), ShaOf(p, 1)>>

\* the "files" array of the detail response for a commit
FilesPayload(sha) ==
    IF sha % per_page = 1
    THEN << [filename |-> SrcMainPy,      additions |-> 3, deletions |-> 1],
            [filename |-> DockerfilePath, additions |-> 0, deletions |-> 2] >>
    ELSE IF sha = 2
    THEN << [filename |-> RandomfileXyz,  additions |-> 2, deletions |-> 0] >>
    ELSE << >>

\* payloads of a 200 answer of stats/contributors: each contributor's total
StatsPayloads == { << >>, <<2, 1>>, <<0>> }

-----------------------------------------------------------------------------
(* repo_scraper.py and commit_info.py: main and its except clauses.         *)

\* the ValueError swallowed: main falls through and returns None
ExceptValueErrorSwallowed == [ret |-> "None", outcome |-> "ValueError"]

\* except ValueError: return 1
ExceptValueError == [ret |-> "1", outcome |-> "ValueError"]

\* the interrupt reported by the generic clause instead of its own
ExceptKeyboardInterruptAsError == [ret |-> "1", outcome |-> "Error"]

\* except KeyboardInterrupt: return 1
ExceptKeyboardInterrupt == [ret |-> "1", outcome |-> "Interrupted"]

\* except Exception: return 1
ExceptException == [ret |-> "1", outcome |-> "Error"]

\* repo_scraper's main falls off the end of the try block: returns None
ScraperFallThrough == [ret |-> "None", outcome |-> ""]

\* only an explicit 0 counted as success
ExitCodeNoneIsFailure(r) == IF r = "0" THEN 0 ELSE 1

\* exit(main()): None exits with status 0
ExitCode(r) == IF r = "1" THEN 1 ELSE 0

\* a KeyboardInterrupt raised at pc: no except clause below main catches it
Interrupt ==
    /\ interruptedAt' = pc
    /\ pc' = "done"
    /\ ret' = ExceptKeyboardInterrupt.ret
    /\ outcome' = ExceptKeyboardInterrupt.outcome

Return(r) ==
    /\ pc' = "done"
    /\ ret' = r.ret
    /\ outcome' = r.outcome

Init ==
    /\ tool \in {"repo_scraper", "commit_info"}
    /\ \E in \in RunInputs :
          /\ argForm = in[1] /\ argOwner = in[2] /\ argName = in[3]
    /\ arg = Render(argForm, argOwner, argName)
    /\ pc = "main"
    /\ envToken \in EnvTokens /\ faulty = TRUE
    /\ InitRest

\* main, lines 265-271 (commit_info: 60-63, 106-108): parse the argument
MainParse ==
    /\ pc = "main"
    /\ GITHUB_TOKEN' = IF tool = "repo_scraper" THEN envToken ELSE GITHUB_TOKEN
    /\ parsed' = parse_github_url(arg)
    /\ IF parsed'.raised
       THEN /\ Return(ExceptValueError)
            /\ UNCHANGED <<owner, repo>>
       ELSE /\ owner' = parsed'.owner
            /\ repo' = parsed'.repo
            /\ pc' = IF tool = "repo_scraper" THEN "list_req" ELSE "stats_req"
            /\ UNCHANGED <<ret, outcome>>
    /\ UNCHANGED <<tool, argForm, argOwner, argName, arg, interruptedAt,
                   scraperVars, statsVars, classifierVars, counterVars, envToken, faulty,
                   lastAuthorization>>

-----------------------------------------------------------------------------
(* repo_scraper.py: get_all_commits.                                       *)

\* line 188: an empty page ends the loop
EmptyPage(commits) == commits = << >>

\* the comparison of line 196 off by one: a full page ends the listing too
ShortPageOffByOne(commits) == Len(commits) <= per_page

\* line 196: a page shorter than per_page is the last one
ShortPage(commits) == Len(commits) < per_page

\* lines 202-203: a non-200 listing status is printed and the loop goes round
AfterListStatusError == "list_req"

\* the RequestException left to main's generic except clause
AfterListTransportErrorPropagated == [ret |-> "1", outcome |-> "Error"]

\* lines 204-206: a RequestException makes get_all_commits return None
AfterListTransportError == ScraperFallThrough

StartProcessingSkipLoop(commits) == "write"

StartProcessingEmptyUnwritten(commits) ==
    IF commits = << >> THEN "done" ELSE "detail_req"

\* lines 208-213: the loop over all_commits starts (or is skipped when empty)
StartProcessing(commits) == IF commits = << >> THEN "write" ELSE "detail_req"

\* lines 184-201: a 200 listing response carrying commits
On200(commits) ==
    /\ lastListStatus' = 200
    /\ lastSize' = Len(commits)
    /\ IF EmptyPage(commits)
       THEN /\ pc' = StartProcessing(all_commits)
            /\ UNCHANGED <<all_commits, page>>
       ELSE /\ all_commits' = all_commits \o commits
            /\ IF ShortPage(commits)
               THEN /\ pc' = StartProcessing(all_commits')
                    /\ UNCHANGED page
               ELSE /\ page' = page + 1
                    /\ pc' = "list_sleep"
    /\ UNCHANGED <<ret, outcome, interruptedAt, nListFails, transportErr>>

\* line 182 and what follows it: one listing request and its response
ListRequest ==
    /\ pc = "list_req"
    /\ nListReqs' = nListReqs + 1
    /\ lastAuthorization' = AuthorizationHeader(GITHUB_TOKEN)
    /\ retried' = (retried \/ lastListStatus \notin {0, 200})
    /\ \/ \E size \in PartialSizes \cup {per_page} :
            /\ size = per_page => page < MaxPages
            /\ On200(PageCommits(page, size))
       \/ /\ page = 1
          /\ On200(RepeatedPage(page))
       \/ \E st \in ListFailStatuses :
            /\ faulty /\ nListFails < MaxListFails
            /\ lastListStatus' = st
            /\ nListFails' = nListFails + 1
            /\ pc' = AfterListStatusError
            /\ UNCHANGED <<ret, outcome, interruptedAt, page, all_commits,
                           lastSize, transportErr>>
       \/ /\ faulty
          /\ transportErr' = TRUE
          /\ Return(AfterListTransportError)
          /\ UNCHANGED <<interruptedAt, page, all_commits, lastSize,
                         lastListStatus, nListFails>>
       \/ /\ Interrupt
          /\ UNCHANGED <<page, all_commits, lastSize, lastListStatus,
                         nListFails, transportErr>>
    /\ UNCHANGED <<tool, argForm, argOwner, argName, arg, parsed, owner, repo,
                   nSleeps, idx, data_we_need, nDetailReqs, reqSha,
                   lastDetailStatus, nDetailFails, sink, nWrites, statsVars,
                   classifierVars, counterVars, envToken, GITHUB_TOKEN, faulty>>

\* line 201: time.sleep(0.1) between two pages
ListSleep ==
    /\ pc = "list_sleep"
    /\ \/ /\ nSleeps' = nSleeps + 1
          /\ pc' = "list_req"
          /\ UNCHANGED <<ret, outcome, interruptedAt>>
       \/ /\ Interrupt
          /\ UNCHANGED nSleeps
    /\ UNCHANGED <<tool, argForm, argOwner, argName, arg, parsed, owner, repo,
                   page, all_commits, lastSize, lastListStatus, nListReqs,
                   nListFails, retried, transportErr, idx, data_we_need,
                   nDetailReqs, reqSha, lastDetailStatus, nDetailFails, sink,
                   nWrites, statsVars, classifierVars, counterVars, authVars, faulty>>

-----------------------------------------------------------------------------
(* repo_scraper.py: get_commit_changed_files, CommitData, FileData.        *)

NoFiles == [none |-> TRUE, files |-> << >>]

FileToDictAdditionsOnly(fileinfo, githubClassifier) ==
    [filename      |-> fileinfo.filename,
     lines_changed |-> fileinfo.additions,
     category      |-> classify_file(githubClassifier, fileinfo.filename)]

\* FileData(fileinfo).to_dict(githubClassifier), lines 104-117
FileToDict(fileinfo, githubClassifier) ==
    [filename      |-> fileinfo.filename,
     lines_changed |-> fileinfo.additions + fileinfo.deletions,
     category      |-> classify_file(githubClassifier, fileinfo.filename)]

\* lines 231-244: the value returned for a response (None unless status 200);
\* every file of the response is classified by one fresh GitHubFileClassifier
get_commit_changed_files(resp) ==
    LET githubClassifier == GitHubFileClassifier
    IN  IF resp.kind = "status" /\ resp.status = 200
        THEN [none  |-> FALSE,
              files |-> [i \in 1..Len(resp.files) |->
                            FileToDict(resp.files[i], githubClassifier)]]
        ELSE NoFiles

\* CommitData(commit).to_dict() with Files set, lines 119-132 and 218
CommitDict(sha, files_changed) ==
    [sha |-> sha, Author |-> "dev", Date |-> sha, Files |-> files_changed]

DictSetKeepFirst(d, k, v) ==
    IF \E i \in 1..Len(d) : d[i].key = k
    THEN d
    ELSE Append(d, [key |-> k, val |-> v])

DictSetUnlessNone(d, k, v) ==
    IF v.Files.none THEN d
    ELSE IF \E i \in 1..Len(d) : d[i].key = k
         THEN [i \in 1..Len(d) |-> IF d[i].key = k THEN [key |-> k, val |-> v] ELSE d[i]]
         ELSE Append(d, [key |-> k, val |-> v])

\* d[k] = v on a dict kept in insertion order
DictSet(d, k, v) ==
    IF \E i \in 1..Len(d) : d[i].key = k
    THEN [i \in 1..Len(d) |-> IF d[i].key = k THEN [key |-> k, val |-> v] ELSE d[i]]
    ELSE Append(d, [key |-> k, val |-> v])

DetailResponses(sha) ==
    {[kind |-> "status", status |-> 200, files |-> FilesPayload(sha)]}
    \cup (IF faulty /\ sha <= MaxBadSha
          THEN {[kind |-> "status", status |-> st, files |-> << >>] :
                    st \in DetailFailStatuses}
               \cup {[kind |-> "transport", status |-> 0, files |-> << >>]}
          ELSE {})

CommitAtReversed(commits, i) == commits[Len(commits) + 1 - i]

\* line 213: for commit in all_commits, the commit of the i-th iteration
CommitAt(commits, i) == commits[i]

\* lines 213-219: one iteration of the loop over all_commits
DetailRequest ==
    /\ pc = "detail_req"
    /\ nDetailReqs' = nDetailReqs + 1
    /\ lastAuthorization' = AuthorizationHeader(GITHUB_TOKEN)
    /\ reqSha' = CommitAt(all_commits, idx)
    /\ \/ \E resp \in DetailResponses(CommitAt(all_commits, idx)) :
            LET sha           == CommitAt(all_commits, idx)
                files_changed == get_commit_changed_files(resp)
            IN  /\ lastDetailStatus' = resp.status
                /\ transportErr' = (transportErr \/ resp.kind = "transport")
                /\ nDetailFails' = nDetailFails + (IF files_changed.none THEN 1 ELSE 0)
                /\ data_we_need' = DictSet(data_we_need, sha, CommitDict(sha, files_changed))
                /\ idx' = idx + 1
                /\ pc' = IF idx = Len(all_commits) THEN "write" ELSE "detail_req"
                /\ UNCHANGED <<ret, outcome, interruptedAt>>
       \/ /\ Interrupt
          /\ UNCHANGED <<lastDetailStatus, transportErr, nDetailFails,
                         data_we_need, idx>>
    /\ UNCHANGED <<tool, argForm, argOwner, argName, arg, parsed, owner, repo,
                   page, all_commits, lastSize, lastListStatus, nListReqs,
                   nListFails, retried, nSleeps, sink, nWrites, statsVars,
                   classifierVars, counterVars, envToken, GITHUB_TOKEN, faulty>>

-----------------------------------------------------------------------------
(* repo_scraper.py: write_data_to_json.                                    *)

DotJson == <<".", "j", "s", "o", "n">>

Written(name, data) ==
    [written |-> TRUE, complete |-> TRUE, name |-> name, data |-> data]

\* the file as open(filename, 'w') leaves it when json.dump does not finish
Truncated(name) ==
    [written |-> TRUE, complete |-> FALSE, name |-> name, data |-> << >>]

\* line 222 and lines 134-144, then the return to main
WriteSink ==
    /\ pc = "write"
    /\ nWrites' = nWrites + 1
    /\ \/ /\ sink' = Written(repo \o DotJson, data_we_need)
          /\ Return(ScraperFallThrough)
          /\ UNCHANGED interruptedAt
       \/ /\ sink' \in {sink, Truncated(repo \o DotJson)}
          /\ Return(ScraperFallThrough)
          /\ UNCHANGED interruptedAt
       \/ /\ sink' \in {sink, Truncated(repo \o DotJson)}
          /\ Interrupt
    /\ UNCHANGED <<tool, argForm, argOwner, argName, arg, parsed, owner, repo,
                   page, all_commits, lastSize, lastListStatus, nListReqs,
                   nListFails, retried, nSleeps, transportErr, idx,
                   data_we_need, nDetailReqs, reqSha, lastDetailStatus,
                   nDetailFails, statsVars, classifierVars, counterVars, authVars, faulty>>

-----------------------------------------------------------------------------
(* commit_info.py: get_contributors_stats and the rest of main.            *)

RECURSIVE SumSeq(_)
SumSeq(q) == IF q = << >> THEN 0 ELSE Head(q) + SumSeq(Tail(q))

\* the 202 branch without its time.sleep(3): the request is re-issued at once
After202NoBackoff == "stats_req"

\* lines 34-37: what a 202 leads to
After202 == "stats_sleep"

\* lines 38-45: the value returned for a terminal status
StatsReturn(status, payload) ==
    IF status = 200 THEN [none |-> FALSE, totals |-> payload] ELSE NoStats

\* lines 68-104: main after get_contributors_stats returned
StatsReport(st) ==
    IF st.none THEN [ret |-> "1", outcome |-> "Failed"]
    ELSE IF st.totals = << >> THEN [ret |-> "0", outcome |-> "NoStatistics"]
    ELSE IF SumSeq(st.totals) = 0 THEN ExceptException
    ELSE [ret |-> "0", outcome |-> "Report"]

\* line 32 and what follows it: one request to stats/contributors
StatsRequest ==
    /\ pc = "stats_req"
    /\ nStatsReqs' = nStatsReqs + 1
    /\ lastAuthorization' = NoAuthorization
    /\ \/ /\ n202 < MaxPolls
          /\ n202' = n202 + 1
          /\ lastStatsStatus' = 202
          /\ pc' = After202
          /\ UNCHANGED <<ret, outcome, interruptedAt, stats, lastPayload>>
       \/ \E status \in {200, 404, 500} : \E payload \in StatsPayloads :
            /\ status # 200 => payload = << >>
            /\ lastStatsStatus' = status
            /\ lastPayload' = payload
            /\ stats' = StatsReturn(status, payload)
            /\ Return(StatsReport(stats'))
            /\ UNCHANGED <<interruptedAt, n202>>
       \/ /\ Return(ExceptException)
          /\ UNCHANGED <<interruptedAt, n202, stats, lastStatsStatus, lastPayload>>
       \/ /\ Interrupt
          /\ UNCHANGED <<n202, stats, lastStatsStatus, lastPayload>>
    /\ UNCHANGED <<tool, argForm, argOwner, argName, arg, parsed, owner, repo,
                   scraperVars, nBackoffs, classifierVars, counterVars, envToken, faulty,
                   GITHUB_TOKEN>>

\* line 36: time.sleep(3), then continue
StatsSleep ==
    /\ pc = "stats_sleep"
    /\ \/ /\ nBackoffs' = nBackoffs + 1
          /\ pc' = "stats_req"
          /\ UNCHANGED <<ret, outcome, interruptedAt>>
       \/ /\ Interrupt
          /\ UNCHANGED nBackoffs
    /\ UNCHANGED <<tool, argForm, argOwner, argName, arg, parsed, owner, repo,
                   scraperVars, classifierVars, counterVars, authVars, faulty, nStatsReqs, n202,
                   lastStatsStatus,
                   lastPayload,
                   stats>>

-----------------------------------------------------------------------------

Next ==
    \/ MainParse
    \/ ListRequest
    \/ ListSleep
    \/ DetailRequest
    \/ WriteSink
    \/ StatsRequest
    \/ StatsSleep

Spec == Init /\ [][Next]_vars

\* repo_scraper.py run on an argument that parses, against a host that
\* answers every listing and detail request with 200
InitScraper ==
    /\ tool = "repo_scraper"
    /\ argForm = "bare" /\ argOwner = <<"a">> /\ argName = <<"a", "a">>
    /\ arg = Render(argForm, argOwner, argName)
    /\ pc = "main"
    /\ envToken = NoToken /\ faulty = FALSE
    /\ InitRest

NextScraper ==
    \/ MainParse
    \/ ListRequest
    \/ ListSleep
    \/ DetailRequest
    \/ WriteSink

\* the single thread of the script runs on until main returns
FairSpec == InitScraper /\ [][NextScraper]_vars /\ WF_vars(NextScraper)

-----------------------------------------------------------------------------
(* build_counter.py, test_counter.py, iac_counter.py: scan_directory,      *)
(* clone_repository and main.                                              *)

\* what the counter scripts and classes never touch
scriptVars == <<tool, argForm, argOwner, argName, arg, parsed, owner, repo,
                scraperVars, statsVars, classifierVars, authVars, faulty>>

\* whether main clones: test_counter and iac_counter always do, build_counter
\* when the source is a repository reference and not a local directory
Clones == tool \in {"test_counter", "iac_counter"} \/ argForm = "github"

\* the directory scan_directory is called on
ScannedDirectory ==
    IF counter.temp_dir # None THEN counter.temp_dir ELSE LocalDirectory

\* where control goes when scan_directory returns: to print_results in main,
\* to the caller of the class otherwise
AfterScan == IF tool \in CounterTools THEN "report" ELSE "scan_start"

\* an exception or interrupt caught by main's except clauses: return 1, with
\* the finally clause still to run
Caught(r) ==
    /\ pc' = "finally"
    /\ ret' = r.ret
    /\ outcome' = r.outcome

\* main up to the decision whether to clone
CounterMain ==
    /\ pc = "main" /\ tool \in CounterTools
    /\ \/ /\ pc' = IF Clones THEN "clone" ELSE "scan_start"
          /\ UNCHANGED <<ret, outcome, interruptedAt>>
       \/ /\ Caught(ExceptKeyboardInterrupt)
          /\ interruptedAt' = pc
    /\ UNCHANGED <<scriptVars, counterVars>>

\* clone_repository and, when it returns None, main's return 1
CloneRepository ==
    /\ pc = "clone"
    /\ \/ \* mkdtemp raised: temp_dir stays None and the cleanup finds nothing
          /\ \E r \in cleanup_temp_dir(counter, tmpExists) :
                /\ tmpExists' = r.exists
                /\ cleanups' = Append(cleanups, r.did)
          /\ pc' = "finally" /\ ret' = "1" /\ outcome' = "CloneFailed"
          /\ UNCHANGED <<counter, interruptedAt>>
       \/ \* git clone timed out, failed or could not be started
          /\ counter' = [counter EXCEPT !.temp_dir = mkdtemp(KindOf(tool))]
          /\ \E r \in cleanup_temp_dir(counter', TRUE) :
                /\ tmpExists' = r.exists
                /\ cleanups' = Append(cleanups, r.did)
          /\ pc' = "finally" /\ ret' = "1" /\ outcome' = "CloneFailed"
          /\ UNCHANGED interruptedAt
       \/ \* the clone succeeded
          /\ counter' = [counter EXCEPT !.temp_dir = mkdtemp(KindOf(tool))]
          /\ tmpExists' = TRUE
          /\ pc' = "scan_start"
          /\ UNCHANGED <<cleanups, ret, outcome, interruptedAt>>
       \/ \* a KeyboardInterrupt while git clone ran: no handler of
          \* clone_repository catches it
          /\ counter' = [counter EXCEPT !.temp_dir = mkdtemp(KindOf(tool))]
          /\ tmpExists' = TRUE
          /\ Caught(ExceptKeyboardInterrupt)
          /\ interruptedAt' = pc
          /\ UNCHANGED cleanups
    /\ UNCHANGED <<scriptVars, toVisit, nScans>>

\* scan_directory up to the first file: a directory that does not exist is
\* reported and nothing is scanned
ScanStart ==
    /\ pc = "scan_start"
    /\ tool \in CounterClasses => nScans < MaxScans
    /\ nScans' = nScans + 1
    /\ \/ /\ counter.temp_dir = None
          /\ toVisit' = {}
       \/ \E tree \in Trees(KindOf(tool)) :
             toVisit' = {file \in tree : Yielded(KindOf(tool), file.path)}
    /\ pc' = IF toVisit' = {} THEN AfterScan ELSE "scan_loop"
    /\ UNCHANGED <<scriptVars, counter, tmpExists, cleanups, ret, outcome,
                   interruptedAt>>

\* one iteration of the loop over the files os.walk yields, in whatever
\* order it yields them
ScanFile ==
    /\ pc = "scan_loop"
    /\ \/ \E file \in toVisit :
             /\ counter' = ScanOne(KindOf(tool), counter, ScannedDirectory, file)
             /\ toVisit' = toVisit \ {file}
             /\ pc' = IF toVisit' = {} THEN AfterScan ELSE "scan_loop"
             /\ UNCHANGED <<ret, outcome, interruptedAt>>
       \/ \* reading or stat-ing the file raised after it was counted as
          \* scanned: main catches it, a caller of the class gets it
          /\ counter' = [counter EXCEPT !.total_files_scanned = @ + 1]
          /\ IF tool \in CounterTools
             THEN Caught(ExceptException) /\ UNCHANGED toVisit
             ELSE pc' = "scan_start" /\ toVisit' = {} /\ UNCHANGED <<ret, outcome>>
          /\ UNCHANGED interruptedAt
       \/ /\ tool \in CounterTools
          /\ Caught(ExceptKeyboardInterrupt)
          /\ interruptedAt' = pc
          /\ UNCHANGED <<counter, toVisit>>
    /\ UNCHANGED <<scriptVars, tmpExists, cleanups, nScans>>

\* print_results, export_json when --json was given, and return 0
Report ==
    /\ pc = "report"
    /\ \/ /\ pc' = "finally" /\ ret' = "0" /\ outcome' = ""
          /\ UNCHANGED interruptedAt
       \/ \* the export file could not be written
          /\ Caught(ExceptException)
          /\ UNCHANGED interruptedAt
       \/ /\ Caught(ExceptKeyboardInterrupt)
          /\ interruptedAt' = pc
    /\ UNCHANGED <<scriptVars, counterVars>>

\* main's finally clause, and main returns
Finally ==
    /\ pc = "finally"
    /\ \E r \in cleanup_temp_dir(counter, tmpExists) :
          /\ tmpExists' = r.exists
          /\ cleanups' = Append(cleanups, r.did)
    /\ pc' = "done"
    /\ UNCHANGED <<scriptVars, counter, toVisit, nScans, ret, outcome,
                   interruptedAt>>

\* one of the three scripts, run on a repository reference or, build_counter
\* only, on a local directory
InitCounter ==
    /\ tool \in CounterTools
    /\ argForm \in (IF tool = "build_counter" THEN {"github", "local"}
                    ELSE {"github"})
    /\ argOwner = <<>> /\ argName = <<>> /\ arg = <<>>
    /\ pc = "main"
    /\ envToken = NoToken /\ faulty = TRUE
    /\ InitRest

NextCounter ==
    \/ CounterMain
    \/ CloneRepository
    \/ ScanStart
    \/ ScanFile
    \/ Report
    \/ Finally

SpecCounter == InitCounter /\ [][NextCounter]_vars

\* a counter object of one of the three classes, on which scan_directory is
\* called up to MaxScans times
InitScan ==
    /\ tool \in CounterClasses
    /\ argForm = "local" /\ argOwner = <<>> /\ argName = <<>> /\ arg = <<>>
    /\ pc = "scan_start"
    /\ envToken = NoToken /\ faulty = TRUE
    /\ InitRest

NextScan == ScanStart \/ ScanFile

SpecScan == InitScan /\ [][NextScan]_vars

-----------------------------------------------------------------------------
(* Properties.                                                             *)

Scraper == tool = "repo_scraper"
StatsTool == tool = "commit_info"

\* the while loop of get_all_commits was left by one of its break statements
ListingFinished ==
    /\ Scraper
    /\ \/ pc \in {"detail_req", "write"}
       \/ pc = "done" /\ (nWrites > 0 \/ interruptedAt = "detail_req")

HasKey(d, k) == \E i \in 1..Len(d) : d[i].key = k

\* C1: when every listing response is a 200, k full pages followed by a page of
\* n < 100 commits cause exactly k+1 requests (pages 1..k+1, one request each) and
\* leave exactly 100*k+n commits in all_commits, in the order the pages gave them.
C1_PaginationTermination ==
    (Scraper /\ nListFails = 0 /\ ~parsed.raised) =>
        /\ pc = "list_req" =>
              /\ nListReqs = page - 1
              /\ Len(all_commits) = per_page * (page - 1)
        /\ ListingFinished =>
              /\ lastSize < per_page
              /\ nListReqs = page
              /\ Len(all_commits) = per_page * (page - 1) + lastSize
              /\ \/ all_commits = RepeatedPage(page)
                 \/ \A j \in 1..Len(all_commits) :
                       all_commits[j] = ShaOf(((j - 1) \div per_page) + 1,
                                              ((j - 1) % per_page) + 1)

\* pages of sizes 100, 100, 37: 3 requests, 237 commits
C1_Witness ==
    /\ ListingFinished /\ nListFails = 0
    /\ nListReqs = 3 /\ lastSize = 37 /\ Len(all_commits) = 237

\* C2 (as claimed): after a listing response with a non-200 status no further
\* listing request and no detail request is issued.
C2_ListingFailureNotRetried ==
    /\ ~retried
    /\ nListFails > 0 => nDetailReqs = 0

DetailFetchFailed ==
    /\ Scraper
    /\ \/ lastDetailStatus \in {404, 500}
       \/ transportErr /\ pc \in {"detail_req", "write"}

\* C4 (as claimed): once a detail fetch has failed with 404, another error
\* status or a transport error, no further detail request is made and the sink
\* is not written.
C4_FailedDetailAbortsRun ==
    [][DetailFetchFailed => (nDetailReqs' = nDetailReqs /\ nWrites' = nWrites)]_vars

\* C5 (as claimed): a run in which a listing or detail request failed exits
\* with 1, and a run that exits with 0 had no failure and wrote its output.
C5_FailuresReachExitCode ==
    (Scraper /\ pc = "done") =>
        /\ (nListFails > 0 \/ nDetailFails > 0 \/ transportErr) => ExitCode(ret) = 1
        /\ ExitCode(ret) = 0 =>
              /\ nListFails = 0 /\ nDetailFails = 0 /\ ~transportErr
              /\ sink.written /\ sink.complete

BlockingWaits == {"list_req", "list_sleep", "detail_req", "stats_req", "stats_sleep"}

\* C6: a KeyboardInterrupt during a listing request, the inter-page sleep, a
\* detail request, a statistics request or its backoff ends the run with the
\* interrupted message and exit code 1, with nothing written; and only an
\* interrupt is reported that way.
C6_Interrupt ==
    /\ interruptedAt \in BlockingWaits =>
          /\ pc = "done"
          /\ outcome = "Interrupted"
          /\ ret = "1" /\ ExitCode(ret) = 1
          /\ nWrites = 0 /\ ~sink.written
    /\ outcome = "Interrupted" => interruptedAt # ""

\* interrupted in a detail request with one commit already processed
C6_Witness ==
    /\ interruptedAt = "detail_req" /\ pc = "done"
    /\ Len(data_we_need) >= 1 /\ ~sink.written

NoPatternMatches(text) ==
    \A p \in 1..Len(patterns) :
        ~ReMatch(patterns[p].prefix, patterns[p].tail, Strip(text)).matched

HasSlash(text) == \E i \in 1..Len(text) : text[i] = "/"

\* C7: for an argument that none of the three patterns matches (every argument
\* without a "/" is one) parse_github_url raises ValueError, and main then
\* returns 1 without any request and without writing.
C7_InvalidReference ==
    /\ ~HasSlash(arg) => NoPatternMatches(arg)
    /\ (NoPatternMatches(arg) /\ pc # "main" /\ pc # "parse_call") =>
          /\ parsed.raised
          /\ tool # "parse_github_url" =>
                /\ pc = "done"
                /\ outcome = "ValueError"
                /\ ExitCode(ret) = 1
                /\ nListReqs = 0 /\ nDetailReqs = 0 /\ nStatsReqs = 0
                /\ nWrites = 0 /\ ~sink.written

\* "not a valid ref!!" given to repo_scraper
C7_Witness ==
    /\ Scraper /\ pc = "done" /\ arg = NotAValidRef
    /\ parsed.raised /\ outcome = "ValueError" /\ ret = "1"

IsSuffix(x, s) == Len(x) <= Len(s) /\ SubSeq(s, Len(s) - Len(x) + 1, Len(s)) = x

\* s without its suffix x, when it ends with x
RemoveSuffix(s, x) == IF IsSuffix(x, s) THEN SubSeq(s, 1, Len(s) - Len(x)) ELSE s

\* a non-empty segment made of letters only
PlainSegment(x) == x # << >> /\ \A i \in 1..Len(x) : x[i] # "."

\* C8 (as claimed): https://github.com/o/n, git@github.com:o/n.git and o/n all
\* yield (o, n).
C8_FormIndependence ==
    (/\ pc = "parse_done"
     /\ argForm \in {"https", "ssh", "bare"}
     /\ PlainSegment(argOwner) /\ PlainSegment(argName)) =>
        parsed = [raised |-> FALSE, owner |-> argOwner, repo |-> argName]

\* the name segment of the argument as written
NameSegment(f, n) ==
    CASE f \in {"https_slash", "bare_slash"} -> n \o <<"/">>
      [] f \in {"https_git", "ssh"}          -> n \o DotGit
      [] OTHER                                -> n

\* C9 (as claimed): the returned name is the name segment with at most one
\* trailing "/" and one trailing ".git" removed, every other character kept.
C9_NameExtraction ==
    (/\ pc = "parse_done"
     /\ argForm \in Forms \ {"word"}
     /\ PlainSegment(argOwner) /\ PlainSegment(argName)
     /\ ~parsed.raised) =>
        parsed.repo = RemoveSuffix(RemoveSuffix(NameSegment(argForm, argName), <<"/">>), DotGit)

\* C10 (as claimed): when parse_github_url returns, owner and name are non-empty.
C10_NonEmptyRef ==
    (/\ pc = "parse_done"
     /\ PlainSegment(argOwner) /\ PlainSegment(argName)
     /\ ~parsed.raised) =>
        parsed.owner # << >> /\ parsed.repo # << >>

-----------------------------------------------------------------------------
(* Properties of classify_file, checked under SpecClassify.                *)

\* the reference classifications as the specification lists them
ReferenceCases ==
    { <<SrcMainPy, "Development">>, <<TestsTestFooPy, "Test">>,
      <<PackageJson, "Build">>, <<DockerfilePath, "Infrastructure">>,
      <<RandomfileXyz, "Development">> }

\* C11 (as claimed): src/main.py is classified Development, tests/test_foo.py
\* Test, package.json Build, Dockerfile Infrastructure and randomfile.xyz
\* Development.
C11_ReferenceClassifications ==
    \A k \in 1..Len(calls) : \A ref \in ReferenceCases :
        calls[k].filepath = ref[1] => calls[k].category = ref[2]

\* the categories in the order the specification gives them
CategoryOrder == <<"Development", "Test", "Build", "Infrastructure">>

\* some tier (extension, path, file name, keyword) of category c matches
AnyTierMatches(c, filepath) ==
    \E k \in 1..Len(classifier.file_patterns) :
        LET item == classifier.file_patterns[k]
        IN  /\ item.category = c
            /\ \/ ExtensionMatch(item.patterns, filepath)
               \/ PathMatch(item.patterns, Lower(filepath))
               \/ FilenameMatch(item.patterns, Lower(LastSegment(filepath)))
               \/ KeywordMatch(item.patterns, Lower(LastSegment(filepath)),
                               Lower(filepath))

MatchingCategories(filepath) ==
    {i \in 1..Len(CategoryOrder) : AnyTierMatches(CategoryOrder[i], filepath)}

\* C12: the result is the first category, in the order Development, Test,
\* Build, Infrastructure, of which some tier matches the path, whatever later
\* categories match too; test/config.json is Test although its extension is
\* a Build extension.
C12_FirstMatchCategoryOrder ==
    \A k \in 1..Len(calls) :
        LET matching == MatchingCategories(calls[k].filepath)
        IN  /\ matching # {} =>
                  \E i \in matching :
                        /\ \A j \in matching : i <= j
                        /\ calls[k].category = CategoryOrder[i]
            /\ calls[k].filepath = TestConfigJson => calls[k].category = "Test"

\* test/config.json was classified: Test and Build both match it, Test won
C12_Witness ==
    \E k \in 1..Len(calls) :
        /\ calls[k].filepath = TestConfigJson
        /\ MatchingCategories(TestConfigJson) = {2, 3}
        /\ calls[k].category = "Test"

\* C13 (as claimed): every classification is one of exactly four values, and
\* the value of the fallback is the value an explicit Development rule gives.
C13_ClosedEnumeration ==
    \A k \in 1..Len(calls) :
        calls[k].category \in {CategoryOrder[i] : i \in 1..Len(CategoryOrder)}

-----------------------------------------------------------------------------
(* Properties of the result set and of the run, checked under Spec.        *)

\* the file records of one persisted commit record are those of the detail
\* response for its sha, one for one and in the same order
FileRecordsOf(rec) ==
    LET payload == FilesPayload(rec.sha)
    IN  /\ Len(rec.Files.files) = Len(payload)
        /\ \A i \in 1..Len(payload) :
              /\ rec.Files.files[i].filename = payload[i].filename
              /\ rec.Files.files[i].lines_changed =
                     payload[i].additions + payload[i].deletions
              /\ rec.Files.files[i].category =
                     classify_file(GitHubFileClassifier, payload[i].filename)

\* C15: every file entry of a successful detail response is persisted as a
\* record with the entry's filename, lines_changed = additions + deletions
\* and category = classify_file(filename), in the order of the response.
C15_ChangedFileRecord ==
    (sink.written /\ sink.complete) =>
        \A k \in 1..Len(sink.data) :
            ~sink.data[k].val.Files.none => FileRecordsOf(sink.data[k].val)

\* a written result whose first commit has the two file records of its
\* response, src/main.py (3 + 1) before Dockerfile (0 + 2)
C15_Witness ==
    /\ sink.written /\ sink.complete
    /\ \E k \in 1..Len(sink.data) :
          /\ sink.data[k].key = ShaOf(1, 1)
          /\ sink.data[k].val.Files =
                 [none  |-> FALSE,
                  files |-> << [filename |-> SrcMainPy, lines_changed |-> 4,
                                category |-> "Development"],
                               [filename |-> DockerfilePath, lines_changed |-> 2,
                                category |-> "Infrastructure"] >>]

\* the keys of a dict, in its order
KeysOf(d) == [k \in 1..Len(d) |-> d[k].key]

RECURSIVE Dedup(_, _)
Dedup(s, seen) ==
    IF s = << >> THEN << >>
    ELSE IF Head(s) \in seen THEN Dedup(Tail(s), seen)
         ELSE <<Head(s)>> \o Dedup(Tail(s), seen \cup {Head(s)})

\* the ids of a listing in the order of their first occurrence
FirstOccurrences(s) ==
    IF Cardinality({s[i] : i \in 1..Len(s)}) = Len(s) THEN s ELSE Dedup(s, {})

\* C16: the result set maps each commit id to one record whose sha is its key,
\* the records stand in fetch order, and a commit id listed twice has one
\* record, the one of its later fetch.
C16_ResultSetKeying ==
    (sink.written /\ sink.complete) =>
        /\ \A k \in 1..Len(sink.data) : sink.data[k].val.sha = sink.data[k].key
        /\ Cardinality({sink.data[k].key : k \in 1..Len(sink.data)}) = Len(sink.data)
        /\ KeysOf(sink.data) = FirstOccurrences(all_commits)
        /\ \A k \in 1..Len(sink.data) :
              sink.data[k].key = reqSha =>
                  sink.data[k].val.Files.none = (lastDetailStatus # 200)

\* the host listed commit 1 twice; its first fetch failed, its second one
\* succeeded, and the written set holds two records, commit 1 with its files
C16_Witness ==
    /\ sink.written /\ sink.complete
    /\ all_commits = RepeatedPage(1)
    /\ nDetailReqs = Len(all_commits) /\ nDetailFails = 1
    /\ Len(sink.data) = 2
    /\ sink.data[1].key = ShaOf(1, 1) /\ ~sink.data[1].val.Files.none
    /\ sink.data[2].key = ShaOf(1, 2) /\ ~sink.data[2].val.Files.none

\* C17: the sink is written at most once, after the listing loop was left by
\* an empty or short page and every listed commit had its detail request; no
\* listing or detail request and no second write follows the write, and what
\* is written is the whole result set.
C17_SingleFinalWrite ==
    /\ [](/\ nWrites <= 1
          /\ nWrites = 1 =>
                /\ lastListStatus = 200 /\ lastSize < per_page
                /\ nDetailReqs = Len(all_commits)
                /\ idx = Len(all_commits) + 1
          /\ sink.written => nWrites = 1
          /\ (sink.written /\ sink.complete) =>
                /\ sink.data = data_we_need
                /\ {sink.data[k].key : k \in 1..Len(sink.data)} =
                       {all_commits[i] : i \in 1..Len(all_commits)})
    /\ [][nWrites >= 1 =>
              /\ nListReqs' = nListReqs
              /\ nDetailReqs' = nDetailReqs
              /\ nWrites' = nWrites]_vars

\* a run of two pages whose commits were all fetched, then written once
C17_Witness ==
    /\ nWrites = 1 /\ sink.written /\ sink.complete
    /\ nListReqs >= 2
    /\ nDetailReqs = Len(all_commits) /\ Len(all_commits) > per_page

\* C18: when a listing request raises a transport error, get_all_commits
\* returns at once: no detail request is made, the sink is not written, and
\* the commits of the pages listed before are dropped with the run.
C18_ListingTransportFailureAborts ==
    /\ [][(pc = "list_req" /\ ~transportErr /\ transportErr') =>
              /\ pc' = "done" /\ ret' = "None" /\ outcome' = ""
              /\ nDetailReqs' = 0 /\ data_we_need' = << >>
              /\ nWrites' = 0 /\ ~sink'.written]_vars
    /\ []((Scraper /\ transportErr /\ nDetailReqs = 0) =>
              /\ pc = "done"
              /\ data_we_need = << >>
              /\ nWrites = 0 /\ ~sink.written)

\* the transport error struck the request for page 2: the 100 commits of
\* page 1 are in all_commits and nothing was fetched or written
C18_Witness ==
    /\ Scraper /\ transportErr /\ pc = "done" /\ ret = "None"
    /\ page = 2 /\ nListReqs = 2 /\ Len(all_commits) = per_page
    /\ nDetailReqs = 0 /\ nWrites = 0 /\ ~sink.written

\* C19 (as claimed): every listing request but the first comes after a
\* completed inter-page delay, so no listing request directly follows another.
C19_InterPageDelay ==
    Scraper => nListReqs <= nSleeps + 1

\* C20: requests are made one at a time; the k-th detail request is for the
\* k-th listed commit, and the first detail request is made only after the
\* listing loop was left, after which no listing request is made.
C20_StrictlySequentialRequests ==
    /\ []((Scraper /\ nDetailReqs > 0) =>
              /\ reqSha = all_commits[nDetailReqs]
              /\ pc \in {"detail_req", "write", "done"}
              /\ lastListStatus = 200 /\ lastSize < per_page)
    /\ [][/\ nDetailReqs > 0 => nListReqs' = nListReqs
          /\ (nListReqs' - nListReqs) + (nDetailReqs' - nDetailReqs)
                 + (nStatsReqs' - nStatsReqs) \in {0, 1}]_vars

\* every commit of more than two full pages had its detail request, the last
\* request being for the last listed commit
C20_Witness ==
    /\ Scraper /\ nListReqs >= MaxPages
    /\ Len(all_commits) > 2 * per_page
    /\ nDetailReqs = Len(all_commits)
    /\ reqSha = all_commits[Len(all_commits)]

\* C21: when the first listing page is empty the run is a success: no detail
\* request is made, the sink is called once with the empty result set, and
\* the exit code is 0.
C21_EmptyRepository ==
    (Scraper /\ page = 1 /\ lastListStatus = 200 /\ lastSize = 0) =>
        /\ all_commits = << >> /\ nDetailReqs = 0 /\ data_we_need = << >>
        /\ pc \in {"write", "done"}
        /\ (pc = "done" /\ interruptedAt = "") =>
              /\ nWrites = 1
              /\ outcome = "" /\ ExitCode(ret) = 0
              /\ sink.complete => sink = Written(repo \o DotJson, << >>)

\* one listing request answered by an empty page, then the empty set written
C21_Witness ==
    /\ Scraper /\ pc = "done" /\ nListReqs = 1 /\ lastSize = 0
    /\ nDetailReqs = 0
    /\ sink = Written(repo \o DotJson, << >>)
    /\ ExitCode(ret) = 0

\* C22: every listing and every detail request carries the Authorization
\* header "token <GITHUB_TOKEN>" built from the token of the environment, and
\* a run without a token still issues its requests: an accepted argument is
\* always followed by a listing request.
C22_AuthorizationOnEveryRequest ==
    Scraper =>
        /\ (nListReqs + nDetailReqs > 0) =>
              /\ lastAuthorization # NoAuthorization
              /\ lastAuthorization[1] = "token "
              /\ envToken.set => lastAuthorization[2] = envToken.value
        /\ (pc = "done" /\ ~parsed.raised /\ interruptedAt = "") => nListReqs > 0

\* a run without GITHUB_TOKEN that listed and fetched commits: its requests
\* went out with the header "token None"
C22_Witness ==
    /\ Scraper /\ ~envToken.set
    /\ nListReqs > 0 /\ nDetailReqs > 0 /\ lastDetailStatus = 200
    /\ lastAuthorization = <<"token ", "None">>

\* a run of repo_scraper in which the argument was rejected, a request did
\* not return 200, or an interrupt arrived
Unhealthy ==
    \/ ~Scraper
    \/ parsed.raised
    \/ nListFails > 0 \/ nDetailFails > 0 \/ transportErr
    \/ interruptedAt # ""

\* C23: a run whose listing and detail requests all return 200 eventually
\* ends, with the listing loop left at a short or empty page, one detail
\* request made per listed commit and the sink called exactly once.
C23_HealthyRunTerminates ==
    <>(\/ Unhealthy
       \/ /\ pc = "done"
          /\ lastListStatus = 200 /\ lastSize < per_page
          /\ nDetailReqs = Len(all_commits)
          /\ nWrites = 1)

\* the end of a healthy run over more than one page
C23_Witness ==
    /\ ~Unhealthy /\ pc = "done"
    /\ page > 1 /\ nListReqs = page /\ nSleeps = page - 1
    /\ nDetailReqs = Len(all_commits) /\ nDetailFails = 0
    /\ nWrites = 1

-----------------------------------------------------------------------------
(* Completeness of the written result set.                                 *)

\* the commit ids the listing pages returned, lines 192 and 212
ListedIds == {all_commits[i] : i \in 1..Len(all_commits)}

\* C24: whenever the sink is written, the keys of the result handed to it are
\* exactly the commit ids the listing pages returned: a commit whose detail
\* request failed keeps its key, and no key is written that was not listed.
C24_Completeness ==
    (Scraper /\ nWrites >= 1) =>
        /\ {data_we_need[k].key : k \in 1..Len(data_we_need)} = ListedIds
        /\ Len(data_we_need) = Cardinality(ListedIds)
        /\ (sink.written /\ sink.complete) =>
              \A id \in ListedIds : \E k \in 1..Len(sink.data) : sink.data[k].key = id

\* two pages were listed, a detail request failed, and the written set still
\* has one key for every listed commit
C24_Witness ==
    /\ Scraper /\ nWrites = 1 /\ sink.written /\ sink.complete
    /\ page = 2 /\ nDetailFails > 0
    /\ Len(all_commits) > per_page
    /\ {sink.data[k].key : k \in 1..Len(sink.data)} = ListedIds
    /\ \E k \in 1..Len(sink.data) : sink.data[k].val.Files.none

-----------------------------------------------------------------------------
(* Development extensions are looked at before every other rule.           *)

\* the Build file names that end with .py or .js
BuildFilenamesPyJs ==
    {BuildPatterns.filenames[k] : k \in
        {j \in 1..Len(BuildPatterns.filenames) :
            \/ EndsWith(BuildPatterns.filenames[j], <<".", "p", "y">>)
            \/ EndsWith(BuildPatterns.filenames[j], <<".", "j", "s">>)}}

\* C25: a path that ends with a Development extension is Development,
\* whatever Test, Build or Infrastructure rule matches it too; so a path that
\* ends with a Test extension is never Test, and a path whose last segment is
\* a Build file name ending with .py or .js is never Build.
C25_DevelopmentExtensionsShadow ==
    /\ \A e \in 1..Len(TestPatterns.extensions) :
          ExtensionMatch(DevelopmentPatterns, TestPatterns.extensions[e])
    /\ \A n \in BuildFilenamesPyJs : ExtensionMatch(DevelopmentPatterns, n)
    /\ \A k \in 1..Len(calls) :
          LET filepath == calls[k].filepath
          IN  /\ ExtensionMatch(DevelopmentPatterns, filepath) =>
                    calls[k].category = "Development"
              /\ ExtensionMatch(TestPatterns, filepath) =>
                    calls[k].category = "Development"
              /\ LastSegment(filepath) \in BuildFilenamesPyJs =>
                    calls[k].category = "Development"

\* foo.test.js, setup.py and tests/test_foo.py were classified: the first
\* ends with a Test extension, the second is a Build file name, the third
\* lies under a Test path, and all three came out as Development
C25_Witness ==
    /\ \E k \in 1..Len(calls) :
          /\ calls[k].filepath = FooTestJs
          /\ ExtensionMatch(TestPatterns, FooTestJs)
          /\ calls[k].category = "Development"
    /\ \E k \in 1..Len(calls) :
          /\ calls[k].filepath = SetupPy
          /\ FilenameMatch(BuildPatterns, Lower(SetupPy))
          /\ calls[k].category = "Development"
    /\ \E k \in 1..Len(calls) :
          /\ calls[k].filepath = TestsTestFooPy
          /\ PathMatch(TestPatterns, Lower(TestsTestFooPy))
          /\ calls[k].category = "Development"

-----------------------------------------------------------------------------
(* parse_github_url matches a prefix of the stripped argument.             *)

\* the form of the same reference without the text after the name segment
Untrailed(f) ==
    CASE f = "bare_extra" -> "bare"
      [] f = "https_tree" -> "https"
      [] f = "padded"     -> "bare"
      [] OTHER            -> f

\* C26: the argument is stripped and matched from its start only: text after
\* the name segment is ignored and the argument is accepted, with the result
\* of the same reference without that text; a/a/c and
\* https://github.com/a/a/tree/main both yield (a, a).
C26_PrefixMatching ==
    (/\ pc = "parse_done"
     /\ argForm \in TrailingForms \cup {"padded"}
     /\ argOwner # << >> /\ argName # << >>) =>
        /\ ~parsed.raised
        /\ parsed = parse_github_url(Render(Untrailed(argForm), argOwner, argName))
        /\ parsed.owner = argOwner
        /\ parsed.repo = RStrip(argName, RstripChars)
        /\ PlainSegment(argName) /\ argName[Len(argName)] = "a" =>
              parsed.repo = argName

\* https://github.com/a/a/tree/main was parsed and gave (a, a)
C26_Witness ==
    /\ pc = "parse_done" /\ argForm = "https_tree"
    /\ arg = HttpsPrefix \o <<"a", "/", "a">> \o TreeMain
    /\ ~parsed.raised /\ parsed.owner = <<"a">> /\ parsed.repo = <<"a">>

-----------------------------------------------------------------------------
(* The counters of the directory scanners.                                 *)

\* the paths recorded under the i-th category of the counter
RecordedPaths(i) ==
    {counter.files[i].val[k].path : k \in 1..Len(counter.files[i].val)}

\* C27: after any sequence of scan_directory calls the total of matched files
\* is the sum of the lengths of the per-category lists and at most
\* total_files_scanned, and no file stands under two categories: a file that
\* matches several is under the first of them, .circleci/a.mk under C/C++
\* and not under CI/CD.
C27_CounterConsistency ==
    /\ counter.total =
           SumSeq([i \in 1..Len(counter.files) |-> Len(counter.files[i].val)])
    /\ counter.total <= counter.total_files_scanned
    /\ \A i, j \in 1..Len(counter.files) :
          i # j => /\ counter.files[i].key # counter.files[j].key
                   /\ RecordedPaths(i) \cap RecordedPaths(j) = {}
    /\ \A i \in 1..Len(counter.files) :
          /\ counter.files[i].val # << >>
          /\ CircleciMk.path \in RecordedPaths(i) => counter.files[i].key = "C/C++"

\* a BuildFileCounter after two scans of four files in all: README.md was
\* scanned and not matched, .circleci/a.mk stands under C/C++, setup.py
\* under Python
C27_Witness ==
    /\ tool = "BuildFileCounter" /\ nScans = 2 /\ pc = "scan_start"
    /\ counter.total_files_scanned = 4 /\ counter.total = 3
    /\ Len(counter.files) = 2
    /\ \E i \in 1..Len(counter.files) :
          counter.files[i].key = "C/C++" /\ CircleciMk.path \in RecordedPaths(i)
    /\ \E i \in 1..Len(counter.files) :
          counter.files[i].key = "Python" /\ Len(counter.files[i].val) = 2
    /\ BuildDirectoryContext(CircleciMk.path,
                             build_patterns[13].patterns.directory_patterns)

-----------------------------------------------------------------------------
(* The temporary clone directory.                                          *)

\* main of a counter script has returned after clone_repository created the
\* temporary directory
ReturnedAfterMkdtemp ==
    tool \in CounterTools /\ pc = "done" /\ counter.temp_dir # None

\* C28 (as claimed): on every exit path of main after the temporary directory
\* was created the directory is gone when main returns, and on the
\* clone-failure path the second cleanup_temp_dir call does nothing.
C28_TempDirAlwaysRemoved ==
    ReturnedAfterMkdtemp =>
        /\ ~tmpExists
        /\ outcome = "CloneFailed" =>
              Len(cleanups) = 2 /\ cleanups[2] = "nothing"

\* C28 (amended): on every exit path of main after the temporary directory was
\* created, cleanup_temp_dir has run when main returns, no call of it raised,
\* and the directory is gone unless the last shutil.rmtree tried on it
\* raised and was answered with a warning; on the clone-failure path the
\* second call does nothing when the first one removed the directory and
\* tries the removal again when it could not.
C28_TempDirCleanup ==
    /\ tmpExists => counter.temp_dir # None
    /\ \A k \in 1..Len(cleanups) : cleanups[k] \in {"removed", "warned", "nothing"}
    /\ ReturnedAfterMkdtemp =>
          /\ cleanups # << >>
          /\ tmpExists <=> cleanups[Len(cleanups)] = "warned"
          /\ \E k \in 1..Len(cleanups) : cleanups[k] # "nothing"
          /\ IF outcome = "CloneFailed"
             THEN /\ Len(cleanups) = 2
                  /\ cleanups[1] = "removed" <=> cleanups[2] = "nothing"
             ELSE Len(cleanups) = 1
          /\ ret \in {"0", "1"}
          /\ ret = "0" <=> (outcome = "" /\ interruptedAt = "")

\* the clone failed: clone_repository removed the directory, and the call in
\* main's finally clause found nothing to do
C28_Witness ==
    /\ ReturnedAfterMkdtemp /\ outcome = "CloneFailed" /\ ret = "1"
    /\ cleanups = <<"removed", "nothing">>
    /\ ~tmpExists

====
